---------------------------- MODULE Spec2Model ----------------------------
(***************************************************************************)
(* The MRU list manager of the project launcher (src/internal/mru/mru.go): *)
(* an in-memory ordered list with an index, loaded lazily from a backing   *)
(* file and written back through a temporary file and a rename.            *)
(*                                                                         *)
(* A path is a record [abs, segs]: whether it starts with "/" and the      *)
(* sequence of its "/"-separated elements, exactly as spelled (uncleaned). *)
(* The empty string is [abs |-> FALSE, segs |-> <<>>].                     *)
(***************************************************************************)
EXTENDS Integers, Sequences, FiniteSets, TLC

VARIABLES
    m,        \* the MRUList object: items, itemSet, dirty, lastMod, initialized
    file,     \* the backing file m.filename: NoFile or [lines, mod, readable]
    tmp,      \* the temporary file m.filename + ".tmp": NoFile or its lines
    now,      \* the clock that stamps modification times
    pc,       \* position of the running call: "idle" or a step of saveAtomic
    op,       \* the running / last returned public call and what it started
              \* from (the store after the call's lazy load, the backing file)
    updates,  \* the Update arguments so far, while the store started empty and
              \* only Update was called; Untracked otherwise
    calls,    \* number of public calls and external writes made
    mu,       \* m.mu, the store's sync.RWMutex: its writer and its readers
    th,       \* the goroutines calling the store: position, call, result
    launch,   \* one run of launchProject: its position and local variables
    names,    \* directory entries of the backing file and the temp file,
              \* as two processes share them: name -> inode, 0 if absent
    inodes,   \* the content of each inode
    proc      \* the processes that run saveAtomic on the shared file names

\* the variables of the sequential specifications of the store
mruVars == <<m, file, tmp, now, pc, op, updates, calls>>

\* the variables of the goroutines
goVars == <<mu, th>>

\* the variables of the processes sharing the file names
procVars == <<names, inodes, proc>>

\* what the sequential specifications of the store leave alone
others == <<mu, th, launch, names, inodes, proc>>

vars == <<m, file, tmp, now, pc, op, updates, calls, mu, th, launch,
          names, inodes, proc>>

----------------------------------------------------------------------------
(* Bounds of the model and constants of the program *)

\* number of public calls and external writes in a behaviour
MaxCalls == 3

\* number of lines of the generated backing files
MaxLines == 3

\* number of calls each goroutine makes
MaxOps == 1

\* number of projects the discovery finds
MaxFound == 2

\* number of saves each process makes
MaxSaves == 1

\* number of timers the timer-based store creates
MaxTimers == 3

\* capacity of the timer-based store of internal/core
coreMaxItems == 10

maxMRUItems == 20

----------------------------------------------------------------------------
(* Paths *)

Path(a, s) == [abs |-> a, segs |-> s]

EmptyString == Path(FALSE, <<>>)

Range(s) == {s[i] : i \in 1..Len(s)}

Front(s) == SubSeq(s, 1, Len(s) - 1)

\* the configured base directory, /base
baseDir == Path(TRUE, <<"base">>)

\* The directories "p01" .. "p22" under baseDir fill a list to capacity.
FillerNames ==
    <<"p01", "p02", "p03", "p04", "p05", "p06", "p07", "p08", "p09", "p10",
      "p11", "p12", "p13", "p14", "p15", "p16", "p17", "p18", "p19", "p20",
      "p21", "p22">>

Filler(i) == Path(TRUE, <<"base", FillerNames[i]>>)

\* The directory tree: the existing directories, by their canonical
\* elements.  /base/..x is a directory whose name begins with two dots;
\* /base/"c " is a directory whose name ends with a space.
\* /base/ghost and /base/c do not exist.
Dirs ==
    {<<>>, <<"base">>, <<"out">>,
     <<"base", "a">>, <<"base", "b">>, <<"base", "..x">>, <<"base", "c ">>}
    \cup {<<"base", FillerNames[i]>> : i \in 1..Len(FillerNames)}

\* strings.TrimSpace, on the last element of a line.  "c " is the only
\* element of the model that carries white space.
TrimSeg(s) == IF s = "c " THEN "c" ELSE s

TrimSpace(line) ==
    IF line.segs = <<>> THEN line
    ELSE [line EXCEPT !.segs[Len(line.segs)] = TrimSeg(@)]

\* strings.HasPrefix(s, "..") for a relative path: its first element begins
\* with two dots ("..", or a name such as "..x").
HasDotDotPrefix(p) ==
    /\ ~p.abs
    /\ p.segs # <<>>
    /\ p.segs[1] \in {"..", "..x"}

filepath_IsAbs(p) == p.abs

\* filepath.Clean: lexical processing of "." and ".." elements.
RECURSIVE CleanSegs(_, _, _)
CleanSegs(abs, out, rest) ==
    IF rest = <<>> THEN out
    ELSE LET s == Head(rest) IN
         IF s = "." \/ s = "" THEN CleanSegs(abs, out, Tail(rest))
         ELSE IF s = ".." THEN
              IF out # <<>> /\ out[Len(out)] # ".."
              THEN CleanSegs(abs, Front(out), Tail(rest))
              ELSE IF abs THEN CleanSegs(abs, out, Tail(rest))
              ELSE CleanSegs(abs, Append(out, ".."), Tail(rest))
         ELSE CleanSegs(abs, Append(out, s), Tail(rest))

filepath_Clean(p) ==
    LET c == CleanSegs(p.abs, <<>>, p.segs)
    IN  IF ~p.abs /\ c = <<>> THEN Path(FALSE, <<".">>) ELSE Path(p.abs, c)

\* filepath.Join(base, p): the elements of both, cleaned.
filepath_Join(base, p) == filepath_Clean(Path(base.abs, base.segs \o p.segs))

\* filepath.Abs of an absolute path is its Clean and never fails.  Every
\* path normalizeProject passes to it is absolute because baseDir is.
filepath_Abs(p) == filepath_Clean(p)

CommonLen(s, t) ==
    LET ks == {k \in 0..Len(s) : k <= Len(t) /\ SubSeq(s, 1, k) = SubSeq(t, 1, k)}
    IN  CHOOSE k \in ks : \A j \in ks : j <= k

\* filepath.Rel(base, targ): [err, path].  It fails when only one of the two
\* is absolute; otherwise it climbs from base to the common prefix and
\* descends to targ.  (base is always the absolute baseDir here.)
filepath_Rel(base, targ) ==
    LET b == filepath_Clean(base)
        t == filepath_Clean(targ)
    IN  IF b.abs # t.abs THEN [err |-> TRUE, path |-> EmptyString]
        ELSE LET bs == b.segs
                 ts == t.segs
                 k  == CommonLen(bs, ts)
                 up == [i \in 1..(Len(bs) - k) |-> ".."]
                 r  == up \o SubSeq(ts, k + 1, Len(ts))
             IN  [err |-> FALSE,
                  path |-> IF r = <<>> THEN Path(FALSE, <<".">>) ELSE Path(FALSE, r)]

\* os.Stat(p) succeeds and IsDir(): the kernel walks the elements of the
\* path one directory at a time.
RECURSIVE Walk(_, _)
Walk(cur, rest) ==
    IF cur \notin Dirs THEN FALSE
    ELSE IF rest = <<>> THEN TRUE
    ELSE LET s == Head(rest) IN
         IF s = "." \/ s = "" THEN Walk(cur, Tail(rest))
         ELSE IF s = ".." THEN Walk(IF cur = <<>> THEN cur ELSE Front(cur), Tail(rest))
         ELSE Walk(Append(cur, s), Tail(rest))

StatIsDir(p) == p.abs /\ Walk(<<>>, p.segs)

----------------------------------------------------------------------------
(* The file system objects *)

NoFile == [exists |-> FALSE]

\* a line the Scanner cannot return: longer than its 2 * bufferSize limit
LongLine == Path(TRUE, <<"base", "long line">>)

File(lines, mod, readable) ==
    [exists |-> TRUE, lines |-> lines, mod |-> mod, readable |-> readable]

----------------------------------------------------------------------------
(* MRUList: helpers *)

\* time.Time{}: the zero time, before every modification time
ZeroTime == 0

\* make(map[string]int, maxMRUItems)
EmptyIndex == [p \in {} |-> 0]

NewMRUList ==
    [items       |-> <<>>,
     itemSet     |-> EmptyIndex,
     dirty       |-> FALSE,
     lastMod     |-> ZeroTime,
     initialized |-> FALSE]

\* A variant of rebuildIndex that records every entry at the first position.
rebuildIndex_AllFirst(items) == [p \in Range(items) |-> 1]

\* rebuildIndex: one key per distinct entry; a later position overwrites
\* an earlier one.
rebuildIndex(items) ==
    [p \in Range(items) |->
        CHOOSE i \in 1..Len(items) :
            /\ items[i] = p
            /\ \A j \in 1..Len(items) : items[j] = p => j <= i]

projectExists(project) ==
    LET fullPath == IF filepath_IsAbs(project) THEN project
                    ELSE filepath_Join(baseDir, project)
    IN  StatIsDir(fullPath)

normalizeProject(project) ==
    LET fullPath == IF filepath_IsAbs(project) THEN project
                    ELSE filepath_Join(baseDir, project)
    IN  filepath_Abs(fullPath)

\* toRelativePath: EmptyString stands for the "" the code returns.
toRelativePath(absPath) ==
    LET r == filepath_Rel(baseDir, absPath)
    IN  IF r.err THEN EmptyString
        ELSE IF HasDotDotPrefix(r.path) THEN EmptyString
        ELSE r.path

\* The scan loop of loadFromFile over the remaining lines: the accepted
\* lines, the lines seen, and whether the Scanner stopped with an error.
RECURSIVE ScanLines(_, _, _)
ScanLines(lines, validItems, seenItems) ==
    IF lines = <<>>
    THEN [validItems |-> validItems, seenItems |-> seenItems, err |-> FALSE]
    ELSE IF Head(lines) = LongLine
    THEN [validItems |-> validItems, seenItems |-> seenItems, err |-> TRUE]
    ELSE LET line == TrimSpace(Head(lines)) IN
         IF line = EmptyString THEN ScanLines(Tail(lines), validItems, seenItems)
         ELSE IF line \in seenItems THEN ScanLines(Tail(lines), validItems, seenItems)
         ELSE IF projectExists(line)
              THEN IF Len(validItems) + 1 >= maxMRUItems
                   THEN [validItems |-> Append(validItems, line),
                         seenItems  |-> seenItems \cup {line},
                         err        |-> FALSE]
                   ELSE ScanLines(Tail(lines), Append(validItems, line),
                                  seenItems \cup {line})
              ELSE ScanLines(Tail(lines), validItems, seenItems \cup {line})

\* A variant of loadFromFile that does not notice that os.Open failed and
\* parses the content all the same.
loadFromFile_IgnoresOpenError(st, f) ==
    LET r == ScanLines(f.lines, <<>>, {})
    IN  [m   |-> [st EXCEPT !.items = r.validItems,
                            !.itemSet = rebuildIndex(r.validItems)],
         err |-> r.err]

\* loadFromFile: [m, err].  On an error return the list was already cleared.
loadFromFile(st, f) ==
    IF ~f.readable THEN [m |-> st, err |-> TRUE]
    ELSE LET cleared == [st EXCEPT !.items = <<>>, !.itemSet = EmptyIndex]
             r       == ScanLines(f.lines, <<>>, {})
         IN  IF r.err THEN [m |-> cleared, err |-> TRUE]
             ELSE [m   |-> [cleared EXCEPT
                              !.items   = r.validItems,
                              !.itemSet = rebuildIndex(r.validItems),
                              !.dirty   = IF Len(r.validItems) # Cardinality(r.seenItems)
                                          THEN TRUE ELSE @],
                   err |-> FALSE]

loadWithModTime(st, f) ==
    IF ~f.exists
    THEN [st EXCEPT !.items = <<>>, !.itemSet = EmptyIndex, !.lastMod = ZeroTime]
    ELSE IF ~(f.mod > st.lastMod) /\ Len(st.items) > 0 THEN st
    ELSE LET r == loadFromFile(st, f)
         IN  IF r.err
             THEN [r.m EXCEPT !.items = <<>>, !.itemSet = EmptyIndex]
             ELSE [r.m EXCEPT !.lastMod = f.mod]

ensureInitialized(st, f) ==
    IF st.initialized THEN st
    ELSE [loadWithModTime(st, f) EXCEPT !.initialized = TRUE]

\* copy(items[index:], items[index+1:]); items = items[:len(items)-1]
RemoveAt(items, index) ==
    [j \in 1..(Len(items) - 1) |-> IF j < index THEN items[j] ELSE items[j + 1]]

\* A variant of MoveToFront that forgets to take the entry out of its old place.
MoveToFront_KeepOld(items, existingIndex) ==
    <<items[existingIndex]>> \o items

\* Update, entry found at existingIndex > 0: removed there, put in front.
MoveToFront(items, existingIndex) ==
    <<items[existingIndex]>> \o RemoveAt(items, existingIndex)

\* A variant of EvictOldest that never evicts.
EvictOldest_Never(items) == items

\* A variant of EvictOldest that drops the newest entry instead of the oldest.
EvictOldest_Front(items) ==
    IF Len(items) >= maxMRUItems THEN Tail(items) ELSE items

\* Update, entry not found: the last entry goes when the list is full.
EvictOldest(items) ==
    IF Len(items) >= maxMRUItems
    THEN SubSeq(items, 1, Len(items) - 1)
    ELSE items

\* A variant of UpdateList that writes again when the project is in front.
UpdateList_FrontSaves(st, n) ==
    IF n \in DOMAIN st.itemSet
    THEN LET moved == MoveToFront(st.items, st.itemSet[n])
         IN  [m |-> [st EXCEPT !.items = moved,
                               !.itemSet = rebuildIndex(moved),
                               !.dirty = TRUE],
              save |-> TRUE]
    ELSE LET added == <<n>> \o EvictOldest(st.items)
         IN  [m |-> [st EXCEPT !.items = added,
                               !.itemSet = rebuildIndex(added),
                               !.dirty = TRUE],
              save |-> TRUE]

\* The list part of Update on an initialized store, for the normalized
\* project n: [m, save], save = FALSE for the early return.
UpdateList(st, n) ==
    IF n \in DOMAIN st.itemSet
    THEN LET existingIndex == st.itemSet[n] IN
         IF existingIndex = 1 THEN [m |-> st, save |-> FALSE]
         ELSE LET moved == MoveToFront(st.items, existingIndex)
              IN  [m |-> [st EXCEPT !.items = moved,
                                    !.itemSet = rebuildIndex(moved),
                                    !.dirty = TRUE],
                   save |-> TRUE]
    ELSE LET added == <<n>> \o EvictOldest(st.items)
         IN  [m |-> [st EXCEPT !.items = added,
                               !.itemSet = rebuildIndex(added),
                               !.dirty = TRUE],
              save |-> TRUE]

\* A variant of RemoveList that marks the store dirty and saves although
\* the project was not in the list.
RemoveList_AbsentSaves(st, n) ==
    IF n \notin DOMAIN st.itemSet
    THEN [m |-> [st EXCEPT !.dirty = TRUE], save |-> TRUE]
    ELSE LET rest == RemoveAt(st.items, st.itemSet[n])
         IN  [m |-> [st EXCEPT !.items = rest,
                               !.itemSet = rebuildIndex(rest),
                               !.dirty = TRUE],
              save |-> TRUE]

\* The list part of Remove.
RemoveList(st, n) ==
    IF n \notin DOMAIN st.itemSet THEN [m |-> st, save |-> FALSE]
    ELSE LET rest == RemoveAt(st.items, st.itemSet[n])
         IN  [m |-> [st EXCEPT !.items = rest,
                               !.itemSet = rebuildIndex(rest),
                               !.dirty = TRUE],
              save |-> TRUE]

\* The list part of Clear (which does not call ensureInitialized).
ClearList(st) ==
    [st EXCEPT !.items = <<>>, !.itemSet = EmptyIndex, !.dirty = TRUE]

\* A variant of KeepExisting that validates nothing.
KeepExisting_All(items) == items

RECURSIVE KeepExisting(_)
KeepExisting(items) ==
    IF items = <<>> THEN <<>>
    ELSE IF projectExists(Head(items))
         THEN <<Head(items)>> \o KeepExisting(Tail(items))
         ELSE KeepExisting(Tail(items))

\* The list part of Cleanup.
CleanupList(st) ==
    LET validItems == KeepExisting(st.items)
    IN  IF Len(validItems) # Len(st.items)
        THEN [m |-> [st EXCEPT !.items = validItems,
                               !.itemSet = rebuildIndex(validItems),
                               !.dirty = TRUE],
              save |-> TRUE]
        ELSE [m |-> st, save |-> FALSE]

\* The result loop of Items on an initialized store.
RECURSIVE RelativeItems(_)
RelativeItems(items) ==
    IF items = <<>> THEN <<>>
    ELSE LET relPath == toRelativePath(Head(items))
         IN  IF relPath # EmptyString
             THEN <<relPath>> \o RelativeItems(Tail(items))
             ELSE RelativeItems(Tail(items))

\* What Items() returns when called in the current state.
ItemsResult(st, f) == RelativeItems(ensureInitialized(st, f).items)

\* What Items() returns on a store newly constructed on the backing file f.
FreshItems(f) == ItemsResult(NewMRUList, f)


----------------------------------------------------------------------------
(* Inputs *)

DirA == Path(TRUE, <<"base", "a">>)
DirB == Path(TRUE, <<"base", "b">>)

\* The project identifiers the callers pass: a relative name, an absolute
\* path, a directory whose name begins with "..", a path that leaves
\* baseDir, a directory that does not exist, a name with a trailing space.
Projects ==
    {Path(FALSE, <<"a">>),
     Path(TRUE, <<"base", "b">>),
     Path(FALSE, <<"..x">>),
     Path(FALSE, <<"..", "out">>),
     Path(FALSE, <<"ghost">>),
     Path(FALSE, <<"c ">>)}

FullLines == [i \in 1..maxMRUItems |-> Filler(i)]

\* The backing files a store is opened on: none; two entries; a hand-edited
\* file (another spelling of /base/b, a blank line, a stale entry, a
\* repeated line, a relative line); exactly maxMRUItems entries; more lines
\* than maxMRUItems; a file with an over-long line; an unreadable file.
InitFiles ==
    {NoFile,
     File(<<DirA, DirB>>, 1, TRUE),
     File(<<Path(TRUE, <<"base", ".", "b">>), EmptyString, DirB,
            Path(TRUE, <<"base", "ghost">>), DirB, Path(FALSE, <<"a">>)>>, 1, TRUE),
     File(FullLines, 1, TRUE),
     File(FullLines \o <<DirA, DirB>>, 1, TRUE),
     File(<<DirA, LongLine, DirB>>, 1, TRUE),
     File(<<DirA>>, 1, FALSE)}

\* The lines of the generated backing files: two directories, a stale
\* path, the same stale path with a trailing space, a blank line and an
\* over-long line.
LoadLines ==
    {DirA, DirB,
     Path(TRUE, <<"base", "c">>), Path(TRUE, <<"base", "c ">>),
     EmptyString, LongLine}

SeqsUpTo(S, n) == UNION {[1..k -> S] : k \in 0..n}

\* The backing files of the load specification: those of InitFiles and
\* every readable file of at most MaxLines lines of LoadLines.
LoadFiles ==
    InitFiles \cup {File(lines, 1, TRUE) : lines \in SeqsUpTo(LoadLines, MaxLines)}

NoArg == EmptyString

----------------------------------------------------------------------------
(* The state machine *)

\* no goroutine, the lock free: the calls are made one after the other
NoThread == "none"
Unlocked == [writer |-> NoThread, readers |-> {}]
NoGoroutines == mu = Unlocked /\ th = <<>>

\* launchProject is not running
NoLaunch == [pc |-> "off"]

\* no second process: the store's files are the variables file and tmp
NoProcesses == names = <<>> /\ inodes = <<>> /\ proc = <<>>

Init ==
    /\ m = NewMRUList
    /\ file \in InitFiles
    /\ tmp = NoFile
    /\ now = 1
    /\ pc = "idle"
    /\ op = [name |-> "NewMRUList", arg |-> NoArg, pre |-> <<>>,
             preM |-> NewMRUList, preFile |-> file, err |-> "nil",
             after |-> <<"", "">>]
    /\ updates = [tracked |-> ~file.exists, ids |-> <<>>]
    /\ calls = 0
    /\ NoGoroutines
    /\ launch = NoLaunch
    /\ NoProcesses

CanCall == pc = "idle" /\ calls < MaxCalls

\* The record of a call: pre is the store the call works on, after its
\* lazy load if it makes one.
Called(name, arg, pre, err) ==
    [name |-> name, arg |-> arg, pre |-> pre.items, preM |-> pre,
     preFile |-> file, err |-> err, after |-> <<op.name, op.err>>]

\* A call returns without entering saveAtomic.
ReturnNil(name, arg, st, pre) ==
    /\ m' = st
    /\ pc' = "idle"
    /\ op' = Called(name, arg, pre, "nil")
    /\ calls' = calls + 1
    /\ UNCHANGED <<file, tmp, now>>

\* A call reaches "return m.saveAtomic()": saveAtomic returns nil at once
\* when there is nothing to write, and otherwise starts with the temp file.
EnterSave(name, arg, st, pre) ==
    IF ~st.dirty \/ Len(st.items) = 0
    THEN ReturnNil(name, arg, st, pre)
    ELSE /\ m' = st
         /\ pc' = "create"
         /\ op' = Called(name, arg, pre, "pending")
         /\ calls' = calls + 1
         /\ UNCHANGED <<file, tmp, now>>

Untrack == updates' = [tracked |-> FALSE, ids |-> <<>>]

Update(project) ==
    /\ CanCall
    /\ LET st == ensureInitialized(m, file)
           r  == UpdateList(st, normalizeProject(project))
       IN  IF r.save THEN EnterSave("Update", project, r.m, st)
           ELSE ReturnNil("Update", project, r.m, st)
    /\ updates' = IF updates.tracked
                  THEN [updates EXCEPT !.ids = Append(@, project)]
                  ELSE updates

Remove(project) ==
    /\ CanCall
    /\ LET st == ensureInitialized(m, file)
           r  == RemoveList(st, normalizeProject(project))
       IN  IF r.save THEN EnterSave("Remove", project, r.m, st)
           ELSE ReturnNil("Remove", project, r.m, st)
    /\ Untrack

Clear ==
    /\ CanCall
    /\ EnterSave("Clear", NoArg, ClearList(m), m)
    /\ Untrack

Cleanup ==
    /\ CanCall
    /\ LET st == ensureInitialized(m, file)
           r  == CleanupList(st)
       IN  IF r.save THEN EnterSave("Cleanup", NoArg, r.m, st)
           ELSE ReturnNil("Cleanup", NoArg, r.m, st)
    /\ Untrack

Flush ==
    /\ CanCall
    /\ EnterSave("Flush", NoArg, m, m)
    /\ Untrack

Items ==
    /\ CanCall
    /\ LET st == ensureInitialized(m, file)
       IN  ReturnNil("Items", NoArg, st, st)
    /\ UNCHANGED updates

\* What Size() returns when called in the current state.
SizeResult(st, f) == Len(ensureInitialized(st, f).items)

Size ==
    /\ CanCall
    /\ LET st == ensureInitialized(m, file)
       IN  ReturnNil("Size", NoArg, st, st)
    /\ UNCHANGED updates

\* A variant of Contains that looks the identifier up as it was passed,
\* without making it a canonical path first.
ContainsResult_Raw(st, f, project) ==
    project \in DOMAIN ensureInitialized(st, f).itemSet

\* What Contains(project) returns when called in the current state.
ContainsResult(st, f, project) ==
    normalizeProject(project) \in DOMAIN ensureInitialized(st, f).itemSet

Contains(project) ==
    /\ CanCall
    /\ LET st == ensureInitialized(m, file)
       IN  ReturnNil("Contains", project, st, st)
    /\ UNCHANGED updates

\* what another process writes to the backing file
ExternalLines == <<DirB, Path(TRUE, <<"base", "p01">>)>>

\* Another writer replaces the backing file between two calls of this
\* process: new content, newer modification time.
ExternalWrite ==
    /\ CanCall
    /\ file' = File(ExternalLines, now + 1, TRUE)
    /\ now' = now + 1
    /\ op' = [name |-> "ExternalWrite", arg |-> NoArg, pre |-> m.items,
              preM |-> m, preFile |-> file', err |-> "nil",
              after |-> <<op.name, op.err>>]
    /\ calls' = calls + 1
    /\ Untrack
    /\ UNCHANGED <<m, tmp, pc>>

(* saveAtomic, one file-system call per step; each may fail *)

\* os.OpenFile(tempFile, O_CREATE|O_WRONLY|O_TRUNC): [file, tmp] afterwards
OpenTemp(fs) == [fs EXCEPT !.tmp = <<>>]

\* A variant of WriteTemp that writes through to the backing file as well.
WriteTemp_InPlace(fs, item) ==
    [file |-> File(Append(fs.tmp, item), 1, TRUE), tmp |-> Append(fs.tmp, item)]

\* one item reaches the temp file
WriteTemp(fs, item) == [fs EXCEPT !.tmp = Append(@, item)]

\* os.Remove(tempFile)
RemoveTemp(fs) == [fs EXCEPT !.tmp = NoFile]

\* os.Rename(tempFile, m.filename) at time t
RenameTemp(fs, t) == [file |-> File(fs.tmp, t, TRUE), tmp |-> NoFile]

\* A variant of FailedSave that gives up the pending write.
FailedSave_ClearsDirty(st) == [st EXCEPT !.dirty = FALSE]

\* What an error return of saveAtomic leaves of the store: all of it, the
\* dirty flag included.
FailedSave(st) == st

\* The end of a successful saveAtomic at time t.
SaveDone(st, t) == [st EXCEPT !.dirty = FALSE, !.lastMod = t]

FS == [file |-> file, tmp |-> tmp]

SetFS(fs) == file' = fs.file /\ tmp' = fs.tmp

\* every error path of saveAtomic: the temp file is removed, the error returned
SaveFails ==
    /\ SetFS(RemoveTemp(FS))
    /\ m' = FailedSave(m)
    /\ pc' = "idle"
    /\ op' = [op EXCEPT !.err = "error"]
    /\ UNCHANGED <<now, updates, calls>>

SaveCreate ==
    /\ pc = "create"
    /\ \/ /\ SetFS(OpenTemp(FS))
          /\ pc' = "write"
          /\ UNCHANGED <<m, now, op, updates, calls>>
       \/ /\ m' = FailedSave(m)
          /\ pc' = "idle"
          /\ op' = [op EXCEPT !.err = "error"]
          /\ UNCHANGED <<file, tmp, now, updates, calls>>

\* The loop over m.items.  The items pass through a bufio.Writer; the model
\* lets each reach the temp file as it is written, which covers every
\* moment at which the buffer may be handed to the file.
SaveWrite ==
    /\ pc = "write"
    /\ \/ /\ SetFS(WriteTemp(FS, m.items[Len(tmp) + 1]))
          /\ pc' = IF Len(tmp) + 1 = Len(m.items) THEN "flush" ELSE "write"
          /\ UNCHANGED <<m, now, op, updates, calls>>
       \/ SaveFails

SaveFlush ==
    /\ pc = "flush"
    /\ \/ /\ pc' = "sync"
          /\ UNCHANGED <<m, file, tmp, now, op, updates, calls>>
       \/ SaveFails

\* file.Sync(), then file.Close()
SaveSync ==
    /\ pc = "sync"
    /\ \/ /\ pc' = "rename"
          /\ UNCHANGED <<m, file, tmp, now, op, updates, calls>>
       \/ SaveFails

SaveRename ==
    /\ pc = "rename"
    /\ \/ /\ SetFS(RenameTemp(FS, now + 1))
          /\ now' = now + 1
          /\ m' = SaveDone(m, now + 1)
          /\ pc' = "idle"
          /\ op' = [op EXCEPT !.err = "nil"]
          /\ UNCHANGED <<updates, calls>>
       \/ SaveFails

Next ==
    \/ \E project \in Projects : Update(project) /\ UNCHANGED others
    \/ \E project \in Projects : Remove(project) /\ UNCHANGED others
    \/ Clear /\ UNCHANGED others
    \/ Cleanup /\ UNCHANGED others
    \/ Flush /\ UNCHANGED others
    \/ Items /\ UNCHANGED others
    \/ Size /\ UNCHANGED others
    \/ \E project \in Projects : Contains(project) /\ UNCHANGED others
    \/ ExternalWrite /\ UNCHANGED others
    \/ SaveCreate /\ UNCHANGED others
    \/ SaveWrite /\ UNCHANGED others
    \/ SaveFlush /\ UNCHANGED others
    \/ SaveSync /\ UNCHANGED others
    \/ SaveRename /\ UNCHANGED others

Spec == Init /\ [][Next]_vars

----------------------------------------------------------------------------
(* The load specification: a new store on each of LoadFiles, read calls *)

LoadInit ==
    /\ m = NewMRUList
    /\ file \in LoadFiles
    /\ tmp = NoFile
    /\ now = 1
    /\ pc = "idle"
    /\ op = [name |-> "NewMRUList", arg |-> NoArg, pre |-> <<>>,
             preM |-> NewMRUList, preFile |-> file, err |-> "nil",
             after |-> <<"", "">>]
    /\ updates = [tracked |-> FALSE, ids |-> <<>>]
    /\ calls = 0
    /\ NoGoroutines
    /\ launch = NoLaunch
    /\ NoProcesses

LoadNext ==
    \/ Items /\ UNCHANGED others
    \/ Size /\ UNCHANGED others

LoadSpec == LoadInit /\ [][LoadNext]_vars

----------------------------------------------------------------------------
(* The goroutine specification: goroutines call one store concurrently;   *)
(* every access to a field of the store is a step of its own.             *)

Goroutines == {"g1", "g2"}

\* the backing files of the goroutine specification: none, two entries,
\* a file with an over-long line, an unreadable file
GoFiles ==
    {NoFile,
     File(<<DirA, DirB>>, 1, TRUE),
     File(<<DirA, LongLine>>, 1, TRUE),
     File(<<DirA>>, 1, FALSE)}

GoCall(name, arg) == [name |-> name, arg |-> arg]

NoCall == GoCall("", NoArg)

\* the calls the goroutines make
GoCalls ==
    {GoCall("Items", NoArg), GoCall("Size", NoArg),
     GoCall("Contains", Path(FALSE, <<"a">>)),
     GoCall("Update", Path(FALSE, <<"a">>)), GoCall("Update", DirB),
     GoCall("Remove", Path(FALSE, <<"a">>)),
     GoCall("Clear", NoArg), GoCall("Cleanup", NoArg), GoCall("Flush", NoArg)}

\* A variant of TakesRLock in which every call takes the read lock only.
TakesRLock_All(call) == call.name = call.name

\* the calls that take m.mu.RLock(); the others take m.mu.Lock()
TakesRLock(call) == call.name \in {"Items", "Size", "Contains"}

\* the calls that start with m.ensureInitialized()
CallsEnsure(call) == call.name \notin {"Clear", "Flush"}

GoInit ==
    /\ m = NewMRUList
    /\ file \in GoFiles
    /\ tmp = NoFile
    /\ now = 1
    /\ pc = "idle"
    /\ op = [name |-> "NewMRUList", arg |-> NoArg, pre |-> <<>>,
             preM |-> NewMRUList, preFile |-> file, err |-> "nil",
             after |-> <<"", "">>]
    /\ updates = [tracked |-> FALSE, ids |-> <<>>]
    /\ calls = 0
    /\ mu = Unlocked
    /\ th = [t \in Goroutines |->
               [pc |-> "idle", call |-> NoCall, result |-> "none", done |-> 0]]
    /\ launch = NoLaunch
    /\ NoProcesses

\* what the goroutine specification leaves alone
goIdle == <<tmp, pc, op, updates, calls, launch, names, inodes, proc>>

At(t, where) == th[t].pc = where

Goto(t, where) == th' = [th EXCEPT ![t].pc = where]

\* a goroutine calls a method: the method's first statement is the lock
GoStart(t, call) ==
    /\ At(t, "idle")
    /\ th[t].done < MaxOps
    /\ th' = [th EXCEPT ![t].pc = IF TakesRLock(call) THEN "RLock" ELSE "Lock",
                        ![t].call = call,
                        ![t].result = "none"]
    /\ UNCHANGED <<m, file, now, mu, goIdle>>

\* m.mu.RLock() returns: no writer holds the lock and none waits for it
GoRLock(t) ==
    /\ At(t, "RLock")
    /\ mu.writer = NoThread
    /\ \A u \in Goroutines : ~At(u, "Lock")
    /\ mu' = [mu EXCEPT !.readers = @ \cup {t}]
    /\ Goto(t, "ensure")
    /\ UNCHANGED <<m, file, now, goIdle>>

\* m.mu.Lock() returns: nobody holds the lock
GoLock(t) ==
    /\ At(t, "Lock")
    /\ mu.writer = NoThread
    /\ mu.readers = {}
    /\ mu' = [mu EXCEPT !.writer = t]
    /\ Goto(t, IF CallsEnsure(th[t].call) THEN "ensure" ELSE "body")
    /\ UNCHANGED <<m, file, now, goIdle>>

\* ensureInitialized: if m.initialized { return }
GoEnsure(t) ==
    /\ At(t, "ensure")
    /\ Goto(t, IF m.initialized THEN "body" ELSE "stat")
    /\ UNCHANGED <<m, file, now, mu, goIdle>>

\* loadWithModTime up to the call of loadFromFile
GoStat(t) ==
    /\ At(t, "stat")
    /\ IF ~file.exists
       THEN /\ m' = [m EXCEPT !.items = <<>>, !.itemSet = EmptyIndex,
                              !.lastMod = ZeroTime]
            /\ Goto(t, "setinit")
       ELSE IF ~(file.mod > m.lastMod) /\ Len(m.items) > 0
       THEN /\ Goto(t, "setinit")
            /\ UNCHANGED m
       ELSE /\ Goto(t, "open")
            /\ UNCHANGED m
    /\ UNCHANGED <<file, now, mu, goIdle>>

\* loadFromFile: os.Open, then "Clear existing data"
GoOpen(t) ==
    /\ At(t, "open")
    /\ IF ~file.readable
       THEN /\ Goto(t, "reset")
            /\ UNCHANGED m
       ELSE /\ m' = [m EXCEPT !.items = <<>>, !.itemSet = EmptyIndex]
            /\ Goto(t, "scan")
    /\ UNCHANGED <<file, now, mu, goIdle>>

\* loadFromFile: the scan loop into local variables, then "Update internal
\* structures" and the dirty flag; or the error return
GoScan(t) ==
    /\ At(t, "scan")
    /\ LET r == ScanLines(file.lines, <<>>, {})
       IN  IF r.err
           THEN /\ Goto(t, "reset")
                /\ UNCHANGED m
           ELSE /\ m' = [m EXCEPT
                           !.items   = @ \o r.validItems,
                           !.itemSet = rebuildIndex(m.items \o r.validItems),
                           !.dirty   = IF Len(r.validItems) # Cardinality(r.seenItems)
                                       THEN TRUE ELSE @]
                /\ Goto(t, "stamp")
    /\ UNCHANGED <<file, now, mu, goIdle>>

\* loadWithModTime: "Reset to empty state on error"
GoReset(t) ==
    /\ At(t, "reset")
    /\ m' = [m EXCEPT !.items = <<>>, !.itemSet = EmptyIndex]
    /\ Goto(t, "setinit")
    /\ UNCHANGED <<file, now, mu, goIdle>>

\* loadWithModTime: m.lastMod = stat.ModTime()
GoStamp(t) ==
    /\ At(t, "stamp")
    /\ m' = [m EXCEPT !.lastMod = file.mod]
    /\ Goto(t, "setinit")
    /\ UNCHANGED <<file, now, mu, goIdle>>

\* ensureInitialized: m.initialized = true
GoSetInit(t) ==
    /\ At(t, "setinit")
    /\ m' = [m EXCEPT !.initialized = TRUE]
    /\ Goto(t, "body")
    /\ UNCHANGED <<file, now, mu, goIdle>>

\* the rest of a method on the store st, up to its return statement:
\* the store it leaves, whether it calls saveAtomic, what it returns
GoBody(call, st) ==
    LET n == normalizeProject(call.arg) IN
    CASE call.name = "Items" ->
           [m |-> st, save |-> FALSE, result |-> RelativeItems(st.items)]
      [] call.name = "Size" ->
           [m |-> st, save |-> FALSE, result |-> Len(st.items)]
      [] call.name = "Contains" ->
           [m |-> st, save |-> FALSE, result |-> n \in DOMAIN st.itemSet]
      [] call.name = "Update" ->
           [m |-> UpdateList(st, n).m, save |-> UpdateList(st, n).save,
            result |-> "nil"]
      [] call.name = "Remove" ->
           [m |-> RemoveList(st, n).m, save |-> RemoveList(st, n).save,
            result |-> "nil"]
      [] call.name = "Clear" ->
           [m |-> ClearList(st), save |-> TRUE, result |-> "nil"]
      [] call.name = "Cleanup" ->
           [m |-> CleanupList(st).m, save |-> CleanupList(st).save,
            result |-> "nil"]
      [] call.name = "Flush" ->
           [m |-> st, save |-> TRUE, result |-> "nil"]

\* the method's body; saveAtomic, which runs under the write lock, is one
\* step here and succeeds or fails
GoRun(t) ==
    /\ At(t, "body")
    /\ LET r == GoBody(th[t].call, m)
       IN  IF r.save /\ r.m.dirty /\ Len(r.m.items) > 0
           THEN \/ /\ m' = SaveDone(r.m, now + 1)
                   /\ file' = File(r.m.items, now + 1, TRUE)
                   /\ now' = now + 1
                   /\ th' = [th EXCEPT ![t].pc = "unlock", ![t].result = "nil"]
                \/ /\ m' = FailedSave(r.m)
                   /\ th' = [th EXCEPT ![t].pc = "unlock", ![t].result = "error"]
                   /\ UNCHANGED <<file, now>>
           ELSE /\ m' = r.m
                /\ th' = [th EXCEPT ![t].pc = "unlock", ![t].result = r.result]
                /\ UNCHANGED <<file, now>>
    /\ UNCHANGED <<mu, goIdle>>

\* the deferred m.mu.RUnlock() / m.mu.Unlock(); the method returns
GoUnlock(t) ==
    /\ At(t, "unlock")
    /\ mu' = IF mu.writer = t THEN [mu EXCEPT !.writer = NoThread]
             ELSE [mu EXCEPT !.readers = @ \ {t}]
    /\ th' = [th EXCEPT ![t].pc = "idle", ![t].done = @ + 1]
    /\ UNCHANGED <<m, file, now, goIdle>>

GoNext ==
    \/ \E t \in Goroutines, call \in GoCalls : GoStart(t, call)
    \/ \E t \in Goroutines : GoRLock(t)
    \/ \E t \in Goroutines : GoLock(t)
    \/ \E t \in Goroutines : GoEnsure(t)
    \/ \E t \in Goroutines : GoStat(t)
    \/ \E t \in Goroutines : GoOpen(t)
    \/ \E t \in Goroutines : GoScan(t)
    \/ \E t \in Goroutines : GoReset(t)
    \/ \E t \in Goroutines : GoStamp(t)
    \/ \E t \in Goroutines : GoSetInit(t)
    \/ \E t \in Goroutines : GoRun(t)
    \/ \E t \in Goroutines : GoUnlock(t)

GoSpec == GoInit /\ [][GoNext]_vars

----------------------------------------------------------------------------
(* The launch specification: one run of launchProject, in the variant of  *)
(* cmd/launch.go (discovery, the MRU read, the window and the MRU update  *)
(* in goroutines, store of internal/mru) and in the variant of            *)
(* cmd/root.go (sequential, timer-based store of internal/core).          *)

\* A variant of RemoveDuplicates that keeps the last occurrence of every
\* element instead of the first.
RemoveDuplicates_KeepLast(items) ==
    LET idx == SelectSeq([i \in 1..Len(items) |-> i],
                         LAMBDA i : \A j \in (i + 1)..Len(items) :
                                        items[j] # items[i])
    IN  [k \in 1..Len(idx) |-> items[idx[k]]]

\* the loop of RemoveDuplicates over the remaining items
RECURSIVE RemoveDuplicatesLoop(_, _, _)
RemoveDuplicatesLoop(items, seen, result) ==
    IF items = <<>> THEN result
    ELSE IF Head(items) \in seen
         THEN RemoveDuplicatesLoop(Tail(items), seen, result)
         ELSE RemoveDuplicatesLoop(Tail(items), seen \cup {Head(items)},
                                   Append(result, Head(items)))

RemoveDuplicates(items) == RemoveDuplicatesLoop(items, {}, <<>>)

\* A variant of Candidates that puts the discovered projects first.
Candidates_DiscoveredFirst(mruProjects, allProjects) ==
    RemoveDuplicates(allProjects \o mruProjects)

\* uniqueProjects := RemoveDuplicates(append(mruProjects, allProjects...))
Candidates(mruProjects, allProjects) ==
    RemoveDuplicates(mruProjects \o allProjects)

\* A variant of LaunchResult that fails the launch when Update failed.
LaunchResult_FailsOnMRU(windowErr, mruErr) ==
    IF windowErr # "nil" \/ mruErr # "nil" THEN "error" ELSE "nil"

\* what launchProject of cmd/launch.go returns after wg.Wait()
LaunchResult(windowErr, mruErr) ==
    IF windowErr # "nil" THEN "error" ELSE "nil"

\* strings.Fields of a file's content: the lines hold no inner white space
Fields(lines) ==
    SelectSeq([i \in 1..Len(lines) |-> TrimSpace(lines[i])],
              LAMBDA line : line # EmptyString)

\* internal/core: strings.Fields of the file, nothing on a read error
loadMRU(f) ==
    IF ~f.exists \/ ~f.readable THEN <<>> ELSE Fields(f.lines)

\* internal/core MRUList.Items: every item filepath.Rel can express
RECURSIVE coreItems(_)
coreItems(items) ==
    IF items = <<>> THEN <<>>
    ELSE LET r == filepath_Rel(baseDir, Head(items))
         IN  IF r.err THEN coreItems(Tail(items))
             ELSE <<r.path>> \o coreItems(Tail(items))

\* internal/core updateMRUList
updateMRUList(project, list) ==
    LET rest == SelectSeq(list, LAMBDA p : p # project)
        n    == IF Len(rest) > coreMaxItems - 1 THEN coreMaxItems - 1 ELSE Len(rest)
    IN  <<project>> \o SubSeq(rest, 1, n)

Variants == {"launch.go", "root.go"}

\* the backing files of the launch specification: none, two entries, a file
\* that names /base/b in two spellings
LaunchFiles ==
    {NoFile,
     File(<<DirA, DirB>>, 1, TRUE),
     File(<<Path(TRUE, <<"base", ".", "b">>), DirB, DirA>>, 1, TRUE)}

\* what the discovery can find: a project of the MRU list, another project,
\* and a project whose directory is gone when it is selected
Found == {Path(FALSE, <<"a">>), Path(FALSE, <<"p01">>), Path(FALSE, <<"ghost">>)}

LaunchStart(variant, found, windowExists, f) ==
    [pc |-> "discover", variant |-> variant, found |-> found,
     windowExists |-> windowExists, expired |-> FALSE, received |-> {},
     allProjects |-> <<>>, mruProjects |-> <<>>, uniqueProjects |-> <<>>,
     merged |-> FALSE, selectedProject |-> EmptyString,
     find |-> "none", lookup |-> "none", focusFailed |-> FALSE,
     windowDone |-> FALSE, mruDone |-> FALSE, preFile |-> f,
     windowErr |-> "nil", mruErr |-> "nil", closeErr |-> "nil",
     started |-> FALSE, focused |-> FALSE, warned |-> FALSE,
     ret |-> "running",
     core |-> IF variant = "root.go" THEN loadMRU(f) ELSE <<>>]

LaunchInit ==
    /\ m = NewMRUList
    /\ file \in LaunchFiles
    /\ tmp = NoFile
    /\ now = 1
    /\ pc = "idle"
    /\ op = [name |-> "NewMRUList", arg |-> NoArg, pre |-> <<>>,
             preM |-> NewMRUList, preFile |-> file, err |-> "nil",
             after |-> <<"", "">>]
    /\ updates = [tracked |-> FALSE, ids |-> <<>>]
    /\ calls = 0
    /\ NoGoroutines
    /\ NoProcesses
    /\ \E variant \in Variants, found \in SeqsUpTo(Found, MaxFound),
          windowExists \in BOOLEAN :
          launch = LaunchStart(variant, found, windowExists, file)

\* what the launch specification leaves alone
launchIdle == <<tmp, pc, op, updates, calls, mu, th, names, inodes, proc>>

InLaunchGo(where) == launch.pc = where /\ launch.variant = "launch.go"
InRootGo(where) == launch.pc = where /\ launch.variant = "root.go"

\* a return of launchProject: cmd/root.go has deferred mruList.Close()
Return(l, ret) ==
    [l EXCEPT !.ret = ret,
              !.pc = IF l.variant = "root.go" THEN "close" ELSE "done"]

\* the 2-second context of launchProject expires
Expire ==
    /\ launch.pc \notin {"off", "done"}
    /\ ~launch.expired
    /\ launch' = [launch EXCEPT !.expired = TRUE]
    /\ UNCHANGED <<m, file, now, launchIdle>>

\* case result := <-projectsCh
RecvProjects ==
    /\ InLaunchGo("discover")
    /\ "projects" \notin launch.received
    /\ launch' = [launch EXCEPT !.allProjects = launch.found,
                                !.received = @ \cup {"projects"}]
    /\ UNCHANGED <<m, file, now, launchIdle>>

\* case items := <-mruCh: the goroutine has run mruList.Items()
RecvMRU ==
    /\ InLaunchGo("discover")
    /\ "mru" \notin launch.received
    /\ LET st == ensureInitialized(m, file)
       IN  /\ m' = st
           /\ launch' = [launch EXCEPT !.mruProjects = RelativeItems(st.items),
                                       !.received = @ \cup {"mru"}]
    /\ UNCHANGED <<file, now, launchIdle>>

\* case <-ctx.Done(): return "timeout during project discovery"
DiscoverTimeout ==
    /\ InLaunchGo("discover")
    /\ launch.expired
    /\ launch.received # {"projects", "mru"}
    /\ launch' = Return(launch, "error")
    /\ UNCHANGED <<m, file, now, launchIdle>>

\* the merge, and the return when there is no candidate
Merged(l, mruProjects, allProjects) ==
    LET u  == Candidates(mruProjects, allProjects)
        l1 == [l EXCEPT !.mruProjects = mruProjects,
                        !.allProjects = allProjects,
                        !.uniqueProjects = u,
                        !.merged = TRUE]
    IN  IF u = <<>> THEN Return(l1, "error") ELSE [l1 EXCEPT !.pc = "select"]

Merge ==
    /\ InLaunchGo("discover")
    /\ launch.received = {"projects", "mru"}
    /\ launch' = Merged(launch, launch.mruProjects, launch.allProjects)
    /\ UNCHANGED <<m, file, now, launchIdle>>

\* cmd/root.go: FindProjects, mruList.Items() and the merge in sequence
RootDiscover ==
    /\ InRootGo("discover")
    /\ launch' = Merged(launch, coreItems(launch.core), launch.found)
    /\ UNCHANGED <<m, file, now, launchIdle>>

\* the runner and the picker: an error, nothing selected, or a candidate,
\* which has to be a directory
Select ==
    /\ launch.pc = "select"
    /\ \/ launch' = Return(launch, "error")
       \/ launch' = Return(launch, "nil")
       \/ \E selectedProject \in Range(launch.uniqueProjects) :
             launch' =
                IF StatIsDir(filepath_Join(baseDir, selectedProject))
                THEN [launch EXCEPT !.selectedProject = selectedProject,
                                    !.pc = "launch"]
                ELSE Return([launch EXCEPT !.selectedProject = selectedProject],
                            "error")
    /\ UNCHANGED <<m, file, now, launchIdle>>

\* what window.FindWindow can return: the window, no window, or an error
Lookups(l) ==
    (IF l.windowExists THEN {"found"} ELSE {"none"}) \cup {"error"}

\* what the select of launchOrFocusWindow takes: the result of FindWindow,
\* or ctx.Done() when the context has expired
Taken(l, find) == {find} \cup (IF l.expired THEN {"timeout"} ELSE {})

\* launchOrFocusWindow of cmd/launch.go, in its goroutine
Window ==
    /\ InLaunchGo("launch")
    /\ ~launch.windowDone
    /\ \E find \in Lookups(launch), startErr, focusErr \in {"nil", "error"} :
       \E lookup \in Taken(launch, find) :
          launch' =
             IF lookup # "found" \/ focusErr # "nil"
             THEN [launch EXCEPT !.find = find,
                                 !.lookup = lookup,
                                 !.focusFailed = (lookup = "found"),
                                 !.windowDone = TRUE,
                                 !.windowErr = startErr,
                                 !.started = (startErr = "nil")]
             ELSE [launch EXCEPT !.find = find,
                                 !.lookup = lookup,
                                 !.windowDone = TRUE,
                                 !.windowErr = "nil",
                                 !.focused = TRUE]
    /\ UNCHANGED <<m, file, now, launchIdle>>

\* mruList.Update(selectedProject) of cmd/launch.go, in its goroutine;
\* saveAtomic is one step here and succeeds or fails
UpdateMRU ==
    /\ InLaunchGo("launch")
    /\ ~launch.mruDone
    /\ LET st == ensureInitialized(m, file)
           r  == UpdateList(st, normalizeProject(launch.selectedProject))
       IN  IF r.save /\ r.m.dirty /\ Len(r.m.items) > 0
           THEN \/ /\ m' = SaveDone(r.m, now + 1)
                   /\ file' = File(r.m.items, now + 1, TRUE)
                   /\ now' = now + 1
                   /\ launch' = [launch EXCEPT !.mruDone = TRUE]
                \/ /\ m' = FailedSave(r.m)
                   /\ launch' = [launch EXCEPT !.mruDone = TRUE,
                                               !.mruErr = "error"]
                   /\ UNCHANGED <<file, now>>
           ELSE /\ m' = r.m
                /\ launch' = [launch EXCEPT !.mruDone = TRUE]
                /\ UNCHANGED <<file, now>>
    /\ UNCHANGED launchIdle

\* wg.Wait() is over: the result of cmd/launch.go
Finish ==
    /\ InLaunchGo("launch")
    /\ launch.windowDone
    /\ launch.mruDone
    /\ launch' =
          [launch EXCEPT
             !.ret = LaunchResult(launch.windowErr, launch.mruErr),
             !.warned = (launch.windowErr = "nil" /\ launch.mruErr # "nil"),
             !.pc = "done"]
    /\ UNCHANGED <<m, file, now, launchIdle>>

\* launchOrFocusWindow of cmd/root.go: an error of FindWindow counts as no
\* window, a failed focus is returned
RootWindow ==
    /\ InRootGo("launch")
    /\ \E lookup \in Lookups(launch), startErr, focusErr \in {"nil", "error"} :
          LET err == IF lookup # "found" THEN startErr ELSE focusErr
              l1  == [launch EXCEPT
                        !.find = lookup,
                        !.lookup = lookup,
                        !.focusFailed = (lookup = "found" /\ err # "nil"),
                        !.windowDone = TRUE,
                        !.windowErr = err,
                        !.started = (lookup # "found" /\ err = "nil"),
                        !.focused = (lookup = "found" /\ err = "nil")]
          IN  launch' = IF err # "nil" THEN Return(l1, "error")
                        ELSE [l1 EXCEPT !.pc = "update"]
    /\ UNCHANGED <<m, file, now, launchIdle>>

\* return mruList.Update(selectedProject) of cmd/root.go: the Update of
\* internal/core changes the list in memory and returns nil
RootUpdate ==
    /\ InRootGo("update")
    /\ LET absPath == filepath_Abs(filepath_Join(baseDir, launch.selectedProject))
       IN  launch' = Return([launch EXCEPT
                               !.core = updateMRUList(absPath, @),
                               !.mruDone = TRUE],
                            "nil")
    /\ UNCHANGED <<m, file, now, launchIdle>>

\* defer mruList.Close() of cmd/root.go: save writes the list; its error
\* is dropped
RootClose ==
    /\ InRootGo("close")
    /\ \/ /\ file' = File(launch.core, now + 1, TRUE)
          /\ now' = now + 1
          /\ launch' = [launch EXCEPT !.pc = "done"]
       \/ /\ launch' = [launch EXCEPT !.pc = "done", !.closeErr = "error"]
          /\ UNCHANGED <<file, now>>
    /\ UNCHANGED <<m, launchIdle>>

LaunchNext ==
    \/ Expire
    \/ RecvProjects
    \/ RecvMRU
    \/ DiscoverTimeout
    \/ Merge
    \/ RootDiscover
    \/ Select
    \/ Window
    \/ UpdateMRU
    \/ Finish
    \/ RootWindow
    \/ RootUpdate
    \/ RootClose

LaunchSpec == LaunchInit /\ [][LaunchNext]_vars

----------------------------------------------------------------------------
(* The process specification: two processes, each with its own store in   *)
(* memory, run saveAtomic on the same backing file.  names maps the two   *)
(* path names (the backing file and filename + ".tmp") to an inode or to  *)
(* 0, inodes holds the content of every inode as its lines, proc[p] is    *)
(* the position of process p in saveAtomic with its open file fd.  The    *)
(* entries all have the same length, so that a write at offset 0 over     *)
(* existing content replaces whole lines.                                 *)

Procs == {"p1", "p2"}

\* the dirty, non-empty lists a process saves
ProcLists == {<<DirA>>, <<DirB, DirA>>}

\* the backing file before the saves: absent, or one complete list
ProcInitial == {<<>>, <<DirB>>}

NoFd == 0

ProcIdle == [pc |-> "idle", items |-> <<>>, fd |-> NoFd, err |-> "nil",
             saves |-> 0, lists |-> {}]

ProcInit ==
    /\ m = NewMRUList
    /\ file = NoFile
    /\ tmp = NoFile
    /\ now = 1
    /\ pc = "idle"
    /\ op = [name |-> "NewMRUList", arg |-> NoArg, pre |-> <<>>,
             preM |-> NewMRUList, preFile |-> NoFile, err |-> "nil",
             after |-> <<"", "">>]
    /\ updates = [tracked |-> FALSE, ids |-> <<>>]
    /\ calls = 0
    /\ NoGoroutines
    /\ launch = NoLaunch
    /\ \E initial \in ProcInitial :
          IF initial = <<>>
          THEN names = [file |-> 0, tmp |-> 0] /\ inodes = <<>>
          ELSE names = [file |-> 1, tmp |-> 0] /\ inodes = <<initial>>
    /\ proc = [p \in Procs |-> ProcIdle]

\* what the process specification leaves alone
procIdle == <<m, file, tmp, now, pc, op, updates, calls, mu, th, launch>>

PAt(p, where) == proc[p].pc = where

PGoto(p, where) == [proc EXCEPT ![p].pc = where]

\* a write of data at offset 0 into a file that holds old
Overlay(old, data) ==
    IF Len(data) >= Len(old) THEN data
    ELSE data \o SubSeq(old, Len(data) + 1, Len(old))

\* saveAtomic is entered with a dirty, non-empty list
PBegin(p) ==
    /\ PAt(p, "idle")
    /\ proc[p].saves < MaxSaves
    /\ \E items \in ProcLists :
          proc' = [proc EXCEPT ![p].pc = "create",
                               ![p].items = items,
                               ![p].err = "nil",
                               ![p].lists = @ \cup {items}]
    /\ UNCHANGED <<names, inodes, procIdle>>

\* the return of saveAtomic
PReturn(p, err) ==
    [proc EXCEPT ![p].pc = "idle", ![p].fd = NoFd, ![p].err = err,
                 ![p].saves = @ + 1]

\* os.OpenFile(tempFile, O_CREATE|O_WRONLY|O_TRUNC): a new file, or the
\* existing file of that name cut to length 0; or an error
PCreate(p) ==
    /\ PAt(p, "create")
    /\ \/ /\ names.tmp = 0
          /\ inodes' = Append(inodes, <<>>)
          /\ names' = [names EXCEPT !.tmp = Len(inodes) + 1]
          /\ proc' = [proc EXCEPT ![p].pc = "write", ![p].fd = Len(inodes) + 1]
       \/ /\ names.tmp # 0
          /\ inodes' = [inodes EXCEPT ![names.tmp] = <<>>]
          /\ proc' = [proc EXCEPT ![p].pc = "write", ![p].fd = names.tmp]
          /\ UNCHANGED names
       \/ /\ proc' = PReturn(p, "error")
          /\ UNCHANGED <<names, inodes>>
    /\ UNCHANGED procIdle

\* the WriteString calls and writer.Flush(): the list reaches the open
\* file in one write at offset 0; or an error
PFlush(p) ==
    /\ PAt(p, "write")
    /\ \/ /\ inodes' = [inodes EXCEPT
                          ![proc[p].fd] = Overlay(@, proc[p].items)]
          /\ proc' = PGoto(p, "sync")
       \/ /\ proc' = PGoto(p, "cleanup")
          /\ UNCHANGED inodes
    /\ UNCHANGED <<names, procIdle>>

\* file.Sync() and file.Close(); or an error
PSync(p) ==
    /\ PAt(p, "sync")
    /\ \/ proc' = PGoto(p, "rename")
       \/ proc' = PGoto(p, "cleanup")
    /\ UNCHANGED <<names, inodes, procIdle>>

\* os.Rename(tempFile, m.filename): fails when the temp name is gone
PRename(p) ==
    /\ PAt(p, "rename")
    /\ \/ /\ names.tmp # 0
          /\ names' = [file |-> names.tmp, tmp |-> 0]
          /\ proc' = PReturn(p, "nil")
       \/ /\ proc' = PGoto(p, "cleanup")
          /\ UNCHANGED names
    /\ UNCHANGED <<inodes, procIdle>>

\* file.Close(); os.Remove(tempFile); return the error
PCleanup(p) ==
    /\ PAt(p, "cleanup")
    /\ names' = [names EXCEPT !.tmp = 0]
    /\ proc' = PReturn(p, "error")
    /\ UNCHANGED <<inodes, procIdle>>

ProcNext ==
    \E p \in Procs :
       \/ PBegin(p)
       \/ PCreate(p)
       \/ PFlush(p)
       \/ PSync(p)
       \/ PRename(p)
       \/ PCleanup(p)

ProcSpec == ProcInit /\ [][ProcNext]_vars

----------------------------------------------------------------------------
(* The earlier store of src/unnamed/part_001, called by goroutines.  It   *)
(* loads eagerly in NewMRUList and reloads in Update and Items when the   *)
(* file is newer; its save takes m.mu.Lock() itself.  m holds the fields  *)
(* items, dirty and lastMod; items is never nil after NewMRUList, and a   *)
(* file's modification time is after the zero time.                       *)

part001_loadWithModTime(st, f) ==
    IF ~f.exists THEN [st EXCEPT !.items = <<>>, !.lastMod = ZeroTime]
    ELSE IF ~(f.mod > st.lastMod) THEN st
    ELSE IF ~f.readable THEN [st EXCEPT !.items = <<>>]
    ELSE [st EXCEPT !.items = Fields(f.lines), !.lastMod = f.mod]

part001_NewMRUList(f) ==
    part001_loadWithModTime(
        [items |-> <<>>, dirty |-> FALSE, lastMod |-> ZeroTime], f)

part001_updateList(project, list) ==
    LET rest == SelectSeq(list, LAMBDA p : p # project)
        n    == IF Len(rest) > 9 THEN 9 ELSE Len(rest)
    IN  <<project>> \o SubSeq(rest, 1, n)

\* the result of Items: every item filepath.Rel can express
RECURSIVE part001_Items(_)
part001_Items(items) ==
    IF items = <<>> THEN <<>>
    ELSE LET r == filepath_Rel(baseDir, Head(items))
         IN  IF r.err THEN part001_Items(Tail(items))
             ELSE <<r.path>> \o part001_Items(Tail(items))

\* the backing files: none, two entries, an unreadable file
OldFiles ==
    {NoFile, File(<<DirA, DirB>>, 1, TRUE), File(<<DirA>>, 1, FALSE)}

\* the calls the goroutines make on the earlier store
OldCalls ==
    {GoCall("Items", NoArg),
     GoCall("Update", Path(FALSE, <<"a">>)),
     GoCall("Update", Path(FALSE, <<"b">>)),
     GoCall("Flush", NoArg)}

OldInit ==
    /\ file \in OldFiles
    /\ m = part001_NewMRUList(file)
    /\ tmp = NoFile
    /\ now = 1
    /\ pc = "idle"
    /\ op = [name |-> "NewMRUList", arg |-> NoArg, pre |-> <<>>,
             preM |-> NewMRUList, preFile |-> file, err |-> "nil",
             after |-> <<"", "">>]
    /\ updates = [tracked |-> FALSE, ids |-> <<>>]
    /\ calls = 0
    /\ mu = Unlocked
    /\ th = [t \in Goroutines |->
               [pc |-> "idle", call |-> NoCall, result |-> "none", done |-> 0]]
    /\ launch = NoLaunch
    /\ NoProcesses

\* a goroutine calls a method: the method's first statement is the lock
OldStart(t, call) ==
    /\ At(t, "idle")
    /\ th[t].done < MaxOps
    /\ th' = [th EXCEPT ![t].pc = IF call.name = "Items" THEN "RLock" ELSE "Lock",
                        ![t].call = call,
                        ![t].result = "none"]
    /\ UNCHANGED <<m, file, now, mu, goIdle>>

\* m.mu.RLock() of Items returns: no writer holds the lock and none waits
OldRLock(t) ==
    /\ At(t, "RLock")
    /\ mu.writer = NoThread
    /\ \A u \in Goroutines : ~At(u, "Lock") /\ ~At(u, "save")
    /\ mu' = [mu EXCEPT !.readers = @ \cup {t}]
    /\ Goto(t, "body")
    /\ UNCHANGED <<m, file, now, goIdle>>

\* m.mu.Lock() returns when nobody holds the lock, the caller included:
\* the first statement of Update and Flush, and the first statement of the
\* save they call
OldLock(t) ==
    /\ At(t, "Lock") \/ At(t, "save")
    /\ mu.writer = NoThread
    /\ mu.readers = {}
    /\ mu' = [mu EXCEPT !.writer = t]
    /\ Goto(t, IF At(t, "Lock") THEN "body" ELSE "write")
    /\ UNCHANGED <<m, file, now, goIdle>>

\* the statements between the lock and the return or the call of save;
\* and, inside save, the write of the file
OldRun(t) ==
    /\ At(t, "body") \/ At(t, "write")
    /\ LET call == th[t].call
           st   == part001_loadWithModTime(m, file)
           absPath == filepath_Abs(filepath_Join(baseDir, call.arg))
       IN  IF At(t, "write")
           THEN IF ~m.dirty
                THEN /\ th' = [th EXCEPT ![t].pc = "saveUnlock",
                                         ![t].result = "nil"]
                     /\ UNCHANGED <<m, file, now>>
                ELSE \/ /\ file' = File(m.items, now + 1, TRUE)
                        /\ m' = [m EXCEPT !.dirty = FALSE, !.lastMod = now + 1]
                        /\ now' = now + 1
                        /\ th' = [th EXCEPT ![t].pc = "saveUnlock",
                                            ![t].result = "nil"]
                     \/ /\ th' = [th EXCEPT ![t].pc = "saveUnlock",
                                            ![t].result = "error"]
                        /\ UNCHANGED <<m, file, now>>
           ELSE /\ UNCHANGED <<file, now>>
                /\ IF call.name = "Items"
                   THEN /\ m' = st
                        /\ th' = [th EXCEPT ![t].pc = "unlock",
                                            ![t].result = part001_Items(st.items)]
                   ELSE IF call.name = "Update"
                   THEN IF Len(st.items) > 0 /\ st.items[1] = absPath
                        THEN /\ m' = st
                             /\ th' = [th EXCEPT ![t].pc = "unlock",
                                                 ![t].result = "nil"]
                        ELSE /\ m' = [st EXCEPT
                                        !.items = part001_updateList(absPath, @),
                                        !.dirty = TRUE]
                             /\ Goto(t, "save")
                   ELSE /\ m' = m
                        /\ IF m.dirty
                           THEN Goto(t, "save")
                           ELSE th' = [th EXCEPT ![t].pc = "unlock",
                                                 ![t].result = "nil"]
    /\ UNCHANGED <<mu, goIdle>>

\* the deferred m.mu.Unlock() / m.mu.RUnlock() of the method, and the
\* deferred m.mu.Unlock() of save
OldUnlock(t) ==
    /\ At(t, "unlock") \/ At(t, "saveUnlock")
    /\ mu' = IF mu.writer = t THEN [mu EXCEPT !.writer = NoThread]
             ELSE [mu EXCEPT !.readers = @ \ {t}]
    /\ th' = IF At(t, "unlock")
             THEN [th EXCEPT ![t].pc = "idle", ![t].done = @ + 1]
             ELSE [th EXCEPT ![t].pc = "unlock"]
    /\ UNCHANGED <<m, file, now, goIdle>>

\* a step of a goroutine inside a call
OldStep(t) == OldRLock(t) \/ OldLock(t) \/ OldRun(t) \/ OldUnlock(t)

OldNext ==
    \/ \E t \in Goroutines, call \in OldCalls : OldStart(t, call)
    \/ \E t \in Goroutines : OldRLock(t)
    \/ \E t \in Goroutines : OldLock(t)
    \/ \E t \in Goroutines : OldRun(t)
    \/ \E t \in Goroutines : OldUnlock(t)

\* the scheduler runs every goroutine that can take a step
OldSpec ==
    /\ OldInit
    /\ [][OldNext]_vars
    /\ \A t \in Goroutines : WF_vars(OldStep(t))

----------------------------------------------------------------------------
(* The timer specification: the store of internal/core with its save      *)
(* timers.  m holds items, dirty, timer (the timer m.timer points to, 0   *)
(* for nil) and timers, the state of every timer created so far: "armed", *)
(* "fired" (its callback goroutine has been started and has not yet taken *)
(* the lock), "stopped" or "done".  pc is the caller's position: "open",  *)
(* "closing" (Close has called Stop, not yet save) or "closed".  Update,  *)
(* save and saveIfDirty each run under m.mu.Lock() from their first to    *)
(* their last statement and are one step each.                            *)

NoTimer == 0

\* the backing files of the timer specification
CoreFiles == {NoFile, File(<<DirA, DirB>>, 1, TRUE)}

\* time.AfterFunc: a new armed timer, which m.timer points to
AfterFunc(st) ==
    [st EXCEPT !.timers = Append(@, "armed"), !.timer = Len(st.timers) + 1]

\* m.timer.Stop(): an armed timer will not fire; a timer that has fired
\* is not affected
StopTimer(st) ==
    IF st.timer # NoTimer /\ st.timers[st.timer] = "armed"
    THEN [st EXCEPT !.timers[st.timer] = "stopped"]
    ELSE st

CoreInit ==
    /\ file \in CoreFiles
    /\ m = AfterFunc([items |-> loadMRU(file), dirty |-> FALSE,
                      timer |-> NoTimer, timers |-> <<>>])
    /\ tmp = NoFile
    /\ now = 1
    /\ pc = "open"
    /\ op = [name |-> "NewMRUList", arg |-> NoArg, pre |-> <<>>,
             preM |-> NewMRUList, preFile |-> file, err |-> "nil",
             after |-> <<"", "">>]
    /\ updates = [tracked |-> FALSE, ids |-> <<>>]
    /\ calls = 0
    /\ NoGoroutines
    /\ launch = NoLaunch
    /\ NoProcesses

\* what the timer specification leaves alone
coreIdle == <<tmp, updates, mu, th, launch, names, inodes, proc>>

\* a timer can still be created
CanArm == Len(m.timers) < MaxTimers

\* MRUList.Update of internal/core
CoreUpdate(project) ==
    /\ pc = "open"
    /\ calls < MaxCalls
    /\ CanArm
    /\ LET absPath == filepath_Abs(filepath_Join(baseDir, project))
           st == [m EXCEPT !.items = updateMRUList(absPath, @),
                           !.dirty = TRUE]
       IN  m' = AfterFunc(StopTimer(st))
    /\ calls' = calls + 1
    /\ op' = [op EXCEPT !.name = "Update", !.arg = project, !.err = "nil"]
    /\ UNCHANGED <<file, now, pc, coreIdle>>

\* a timer's time has come: the runtime starts its callback in a goroutine
TimerFires(i) ==
    /\ i \in 1..Len(m.timers)
    /\ m.timers[i] = "armed"
    /\ CanArm
    /\ m' = [m EXCEPT !.timers[i] = "fired"]
    /\ UNCHANGED <<file, now, pc, op, calls, coreIdle>>

\* the callback of timer i: saveIfDirty
saveIfDirty(i) ==
    /\ i \in 1..Len(m.timers)
    /\ m.timers[i] = "fired"
    /\ LET ran == [m EXCEPT !.timers[i] = "done"]
       IN  IF m.dirty
           THEN \/ /\ file' = File(m.items, now + 1, TRUE)
                   /\ now' = now + 1
                   /\ m' = AfterFunc([ran EXCEPT !.dirty = FALSE])
                \/ /\ m' = AfterFunc(ran)
                   /\ UNCHANGED <<file, now>>
           ELSE /\ m' = AfterFunc(ran)
                /\ UNCHANGED <<file, now>>
    /\ UNCHANGED <<pc, op, calls, coreIdle>>

\* MRUList.Close: if m.timer != nil { m.timer.Stop() }
CloseStopsTimer ==
    /\ pc = "open"
    /\ m' = StopTimer(m)
    /\ pc' = "closing"
    /\ op' = [op EXCEPT !.name = "Close", !.arg = NoArg, !.err = "nil"]
    /\ UNCHANGED <<file, now, calls, coreIdle>>

\* MRUList.Close: return m.save()
CloseSaves ==
    /\ pc = "closing"
    /\ \/ /\ file' = File(m.items, now + 1, TRUE)
          /\ now' = now + 1
          /\ m' = [m EXCEPT !.dirty = FALSE]
          /\ UNCHANGED op
       \/ /\ op' = [op EXCEPT !.err = "error"]
          /\ UNCHANGED <<m, file, now>>
    /\ pc' = "closed"
    /\ UNCHANGED <<calls, coreIdle>>

CoreNext ==
    \/ \E project \in {Path(FALSE, <<"a">>), Path(FALSE, <<"b">>)} :
          CoreUpdate(project)
    \/ \E i \in 1..MaxTimers : TimerFires(i)
    \/ \E i \in 1..MaxTimers : saveIfDirty(i)
    \/ CloseStopsTimer
    \/ CloseSaves

CoreSpec == CoreInit /\ [][CoreNext]_vars

----------------------------------------------------------------------------
(* The runner specification: the LuaRunner of src/unnamed/part_002,       *)
(* called by goroutines.  m holds configFile (FALSE for ""), config        *)
(* ("default" or "loaded"; it is not nil once NewLuaRunner has returned)  *)
(* and lastMod; file is the selector config file, readable when it is a   *)
(* valid Lua configuration.                                                *)

\* the runner NewLuaRunner returns: the loaded configuration, or the
\* default configuration with no config file when the load failed
NewLuaRunner(f) ==
    IF f.exists /\ f.readable
    THEN [configFile |-> TRUE, config |-> "loaded", lastMod |-> f.mod]
    ELSE [configFile |-> FALSE, config |-> "default", lastMod |-> ZeroTime]

\* loadConfig up to its lr.mu.Lock(): the default configuration, an error,
\* nothing to do, or a new configuration to store under the lock
loadConfig(st, f) ==
    IF ~st.configFile THEN "default"
    ELSE IF ~f.exists THEN "error"
    ELSE IF ~(f.mod > st.lastMod) /\ st.config # "nil" THEN "nil"
    ELSE IF ~f.readable THEN "error"
    ELSE "lock"

\* the calls on the runner: Select with projects, Select without, Close
RunnerCalls ==
    {GoCall("Select", DirA), GoCall("Select", NoArg), GoCall("Close", NoArg)}

\* the config file when the runner was created
RunnerFiles ==
    {NoFile, File(<<>>, 1, TRUE), File(<<>>, 1, FALSE)}

RunnerInit ==
    /\ \E f \in RunnerFiles :
          /\ m = NewLuaRunner(f)
          /\ file \in {f} \cup (IF f.exists
                                THEN {NoFile, File(<<>>, 2, TRUE), File(<<>>, 2, FALSE)}
                                ELSE {})
    /\ tmp = NoFile
    /\ now = 2
    /\ pc = "idle"
    /\ op = [name |-> "NewLuaRunner", arg |-> NoArg, pre |-> <<>>,
             preM |-> NewMRUList, preFile |-> NoFile, err |-> "nil",
             after |-> <<"", "">>]
    /\ updates = [tracked |-> FALSE, ids |-> <<>>]
    /\ calls = 0
    /\ mu = Unlocked
    /\ th = [t \in Goroutines |->
               [pc |-> "idle", call |-> NoCall, result |-> "none", done |-> 0]]
    /\ launch = NoLaunch
    /\ NoProcesses

\* a goroutine calls Select or Close; Select without projects returns an
\* error at once
RunnerStart(t, call) ==
    /\ At(t, "idle")
    /\ th[t].done < MaxOps
    /\ th' = IF call.name = "Close"
             THEN [th EXCEPT ![t].pc = "Lock", ![t].call = call,
                             ![t].result = "none"]
             ELSE IF call.arg = NoArg
             THEN [th EXCEPT ![t].call = call, ![t].result = "error",
                             ![t].done = @ + 1]
             ELSE [th EXCEPT ![t].pc = "RLock", ![t].call = call,
                             ![t].result = "none"]
    /\ UNCHANGED <<m, file, now, mu, goIdle>>

\* lr.mu.RLock() of Select returns: no writer holds the lock, none waits
RunnerRLock(t) ==
    /\ At(t, "RLock")
    /\ mu.writer = NoThread
    /\ \A u \in Goroutines : ~At(u, "Lock")
    /\ mu' = [mu EXCEPT !.readers = @ \cup {t}]
    /\ Goto(t, "load")
    /\ UNCHANGED <<m, file, now, goIdle>>

\* lr.mu.Lock() returns when nobody holds the lock, as reader or writer,
\* the caller included: in Close, and in the loadConfig that Select calls
RunnerLock(t) ==
    /\ At(t, "Lock")
    /\ mu.writer = NoThread
    /\ mu.readers = {}
    /\ mu' = [mu EXCEPT !.writer = t]
    /\ Goto(t, IF th[t].call.name = "Close" THEN "close" ELSE "store")
    /\ UNCHANGED <<m, file, now, goIdle>>

\* the statements between the lock operations: loadConfig up to its Lock,
\* the assignments of loadConfig under the lock, the body of Close, and
\* the rest of Select, which runs the picker and returns its answer
RunnerRun(t) ==
    /\ th[t].pc \in {"load", "store", "close", "pick"}
    /\ IF At(t, "load")
       THEN LET r == loadConfig(m, file)
            IN  /\ m' = IF r = "default" THEN [m EXCEPT !.config = "default"]
                        ELSE m
                /\ th' = IF r = "lock" THEN [th EXCEPT ![t].pc = "Lock"]
                         ELSE [th EXCEPT ![t].pc = "RUnlock",
                                         ![t].result = IF r = "error"
                                                       THEN "error" ELSE "none"]
       ELSE IF At(t, "store")
       THEN /\ m' = [m EXCEPT !.config = "loaded", !.lastMod = file.mod]
            /\ Goto(t, "Unlock")
       ELSE IF At(t, "close")
       THEN /\ m' = m
            /\ th' = [th EXCEPT ![t].pc = "Unlock", ![t].result = "nil"]
       ELSE /\ m' = m
            /\ \E answer \in {"selection", "error"} :
                  th' = [th EXCEPT ![t].pc = "idle", ![t].result = answer,
                                   ![t].done = @ + 1]
    /\ UNCHANGED <<file, now, mu, goIdle>>

\* lr.mu.RUnlock() of Select, lr.mu.Unlock() of loadConfig and of Close
RunnerUnlock(t) ==
    /\ At(t, "RUnlock") \/ At(t, "Unlock")
    /\ mu' = IF At(t, "RUnlock") THEN [mu EXCEPT !.readers = @ \ {t}]
             ELSE [mu EXCEPT !.writer = NoThread]
    /\ th' = IF At(t, "Unlock") /\ th[t].call.name = "Select"
             THEN [th EXCEPT ![t].pc = "RUnlock"]
             ELSE IF At(t, "RUnlock") /\ th[t].result = "none"
             THEN [th EXCEPT ![t].pc = "pick"]
             ELSE [th EXCEPT ![t].pc = "idle", ![t].done = @ + 1]
    /\ UNCHANGED <<m, file, now, goIdle>>

\* a step of a goroutine inside a call
RunnerStep(t) ==
    RunnerRLock(t) \/ RunnerLock(t) \/ RunnerRun(t) \/ RunnerUnlock(t)

RunnerNext ==
    \/ \E t \in Goroutines, call \in RunnerCalls : RunnerStart(t, call)
    \/ \E t \in Goroutines : RunnerRLock(t)
    \/ \E t \in Goroutines : RunnerLock(t)
    \/ \E t \in Goroutines : RunnerRun(t)
    \/ \E t \in Goroutines : RunnerUnlock(t)

\* the scheduler runs every goroutine that can take a step
RunnerSpec ==
    /\ RunnerInit
    /\ [][RunnerNext]_vars
    /\ \A t \in Goroutines : WF_vars(RunnerStep(t))

----------------------------------------------------------------------------
\* a step of a goroutine inside a call on the store of internal/mru
GoStep(t) ==
    \/ GoRLock(t) \/ GoLock(t) \/ GoEnsure(t) \/ GoStat(t) \/ GoOpen(t)
    \/ GoScan(t) \/ GoReset(t) \/ GoStamp(t) \/ GoSetInit(t) \/ GoRun(t)
    \/ GoUnlock(t)

\* the goroutine specification with the same scheduling
GoFairSpec == GoSpec /\ \A t \in Goroutines : WF_vars(GoStep(t))


----------------------------------------------------------------------------
(* Properties *)

Returned == pc = "idle"

\* the sequence s without its entries equal to x
Without(s, x) == SelectSeq(s, LAMBDA y : y # x)

\* the last call was an Update and it has returned
UpdateReturned == Returned /\ op.name = "Update"

(* Reference notions the claims are stated with; they model no code. *)

\* p lies inside baseDir: baseDir's elements are a prefix of p's
InsideBase(p) ==
    /\ p.abs
    /\ Len(p.segs) >= Len(baseDir.segs)
    /\ SubSeq(p.segs, 1, Len(baseDir.segs)) = baseDir.segs

\* the display path of a canonical path inside baseDir
Display(p) ==
    IF Len(p.segs) = Len(baseDir.segs) THEN Path(FALSE, <<".">>)
    ELSE Path(FALSE, SubSeq(p.segs, Len(baseDir.segs) + 1, Len(p.segs)))

NoDuplicates(s) == \A i, j \in 1..Len(s) : s[i] = s[j] => i = j

\* C1: in every state the in-memory list holds at most 20 entries, also
\* after the lazy load a call made in that state would run, and every
\* Items() call returns at most 20 paths.
C1_Capacity ==
    /\ Len(m.items) <= maxMRUItems
    /\ Len(ensureInitialized(m, file).items) <= maxMRUItems
    /\ (Returned /\ op.name = "Items") =>
          Len(RelativeItems(m.items)) <= maxMRUItems

\* An Update of an absent project on a full list has returned.
C1_Witness ==
    /\ UpdateReturned
    /\ Len(op.pre) = maxMRUItems
    /\ normalizeProject(op.arg) \notin Range(op.pre)
    /\ Len(m.items) = maxMRUItems

\* C2: after Update(p) returns, with or without an error, the canonical
\* path of p is the first entry, and when p lies inside baseDir the first
\* element Items() returns is the display path of p.
C2_FrontAfterUpdate ==
    UpdateReturned =>
        /\ m.items # <<>>
        /\ m.items[1] = normalizeProject(op.arg)
        /\ InsideBase(normalizeProject(op.arg)) =>
              /\ ItemsResult(m, file) # <<>>
              /\ ItemsResult(m, file)[1] = Display(normalizeProject(op.arg))

\* The part of C2 about the list alone: the canonical path of p is the
\* first entry after Update(p) returns.
C2_ListFront ==
    UpdateReturned =>
        /\ m.items # <<>>
        /\ m.items[1] = normalizeProject(op.arg)

\* C3: what Items() returns contains no path twice, whatever the backing
\* file held and whatever was called.
C3_NoDuplicateItems ==
    (Returned /\ op.name = "Items") => NoDuplicates(RelativeItems(m.items))

\* C4: when Update(p) returns and p was in the list at a position other
\* than the front, p is at position 0, the length is unchanged and the
\* other entries keep their order.
C4_Promote ==
    (/\ UpdateReturned
     /\ normalizeProject(op.arg) \in Range(op.pre)
     /\ op.pre[1] # normalizeProject(op.arg))
    => /\ m.items[1] = normalizeProject(op.arg)
       /\ Len(m.items) = Len(op.pre)
       /\ Tail(m.items) = Without(op.pre, normalizeProject(op.arg))

\* An Update has moved an entry from position 1 or later to the front of a
\* list of at least three entries.
C4_Witness ==
    /\ UpdateReturned
    /\ Len(op.pre) >= 3
    /\ normalizeProject(op.arg) \in Range(op.pre)
    /\ op.pre[1] # normalizeProject(op.arg)
    /\ m.items[1] = normalizeProject(op.arg)

\* C5: when Update(p) returns and p was absent, then on a list of 20
\* entries exactly the last entry is gone, p is in front of the other 19 in
\* their order and the length is 20; on a shorter list nothing is evicted
\* and the length has grown by one.
C5_InsertEvict ==
    (/\ UpdateReturned
     /\ normalizeProject(op.arg) \notin Range(op.pre))
    => /\ m.items[1] = normalizeProject(op.arg)
       /\ Len(op.pre) = maxMRUItems =>
             /\ Tail(m.items) = SubSeq(op.pre, 1, maxMRUItems - 1)
             /\ Len(m.items) = maxMRUItems
             /\ op.pre[maxMRUItems] \notin Range(m.items)
       /\ Len(op.pre) < maxMRUItems =>
             /\ Tail(m.items) = op.pre
             /\ Len(m.items) = Len(op.pre) + 1

\* An absent project was inserted into a full list, whose last entry went.
C5_Witness ==
    /\ UpdateReturned
    /\ normalizeProject(op.arg) \notin Range(op.pre)
    /\ Len(op.pre) = maxMRUItems
    /\ op.pre[maxMRUItems] \notin Range(m.items)
    /\ m.items[1] = normalizeProject(op.arg)

\* the reference list of C6: the display paths of the identifiers, most
\* recently updated first, each once, cut to the 20 most recent
RECURSIVE MostRecentFirst(_)
MostRecentFirst(ids) ==
    IF ids = <<>> THEN <<>>
    ELSE LET d == Display(normalizeProject(ids[Len(ids)]))
         IN  <<d>> \o Without(MostRecentFirst(Front(ids)), d)

Reference(ids) ==
    LET r == MostRecentFirst(ids)
    IN  SubSeq(r, 1, IF Len(r) < maxMRUItems THEN Len(r) ELSE maxMRUItems)

\* C6: starting from an empty store, after any sequence of Update calls
\* with identifiers inside baseDir, Items() equals the reference list.
C6_MatchesReference ==
    (/\ Returned
     /\ updates.tracked
     /\ \A i \in 1..Len(updates.ids) : InsideBase(normalizeProject(updates.ids[i])))
    => ItemsResult(m, file) = Reference(updates.ids)

\* C7: while a save is under way, and after a save that failed, the backing
\* file is what it was before the call; a call that returned without error
\* changed the backing file only to the complete new list.
C7_AtomicSave ==
    /\ (pc # "idle" \/ op.err = "error") => file = op.preFile
    /\ (Returned /\ op.err = "nil" /\ file # op.preFile) =>
          /\ file.exists
          /\ file.lines = m.items

\* A save holds the complete new list in the temp file, the rename is yet
\* to come, and the backing file still has its different, earlier content.
C7_Witness ==
    /\ pc = "rename"
    /\ tmp = m.items
    /\ file.exists
    /\ file.lines # <<>>
    /\ file.lines # m.items
    /\ file = op.preFile

\* every entry of the list names an existing directory
AllExist(items) == \A i \in 1..Len(items) : projectExists(items[i])

\* C8: after a successful save (with every entry an existing directory and
\* the tree unchanged), a fresh store opened on the backing file returns
\* from Items() what the saving store's Items() returns.
C8_RoundTrip ==
    (/\ Returned
     /\ op.err = "nil"
     /\ file # op.preFile
     /\ AllExist(m.items))
    => FreshItems(file) = ItemsResult(m, file)

\* C9: when the write inside Update(p) fails, Update returns the error with
\* p at the front of the list and the dirty flag set; a Flush that follows
\* and succeeds writes that list to the backing file and clears the flag.
C9_FailedUpdate ==
    /\ (UpdateReturned /\ op.err = "error") =>
          /\ m.items # <<>>
          /\ m.items[1] = normalizeProject(op.arg)
          /\ m.dirty
    /\ (Returned /\ op.name = "Flush" /\ op.err = "nil"
        /\ op.after = <<"Update", "error">>) =>
          /\ file.exists
          /\ file.lines = op.pre
          /\ file # op.preFile
          /\ m.items = op.pre
          /\ ~m.dirty

\* A Flush after a failed Update has written the list.
C9_Witness ==
    /\ Returned
    /\ op.name = "Flush"
    /\ op.err = "nil"
    /\ op.after = <<"Update", "error">>
    /\ file.exists
    /\ file.lines = m.items
    /\ Len(m.items) >= 2

\* C10: after Clear() returns without error on a store whose backing file
\* held entries, a fresh store opened on the file returns an empty Items().
C10_ClearPersists ==
    (/\ Returned
     /\ op.name = "Clear"
     /\ op.err = "nil"
     /\ FreshItems(op.preFile) # <<>>)
    => FreshItems(file) = <<>>

\* the calls that only read the store
ReadCalls == {"Items", "Size", "Contains"}

\* C11: the read calls that follow a Clear() report an empty list, whether
\* or not the store had been read or updated before the Clear.
C11_EmptyAfterClear ==
    (Returned /\ op.name \in ReadCalls /\ op.after[1] = "Clear") =>
        /\ RelativeItems(m.items) = <<>>
        /\ Len(m.items) = 0
        /\ DOMAIN m.itemSet = {}

\* C12: Remove(p) of a p in the list deletes exactly that entry and keeps
\* the order of the others, and when it returned without error a fresh
\* store opened on the backing file does not contain p.
C12_RemovePersists ==
    (/\ Returned
     /\ op.name = "Remove"
     /\ op.err = "nil"
     /\ normalizeProject(op.arg) \in Range(op.pre))
    => /\ m.items = Without(op.pre, normalizeProject(op.arg))
       /\ ~ContainsResult(NewMRUList, file, op.arg)

\* the entry names an existing directory (a relative entry is taken under
\* baseDir, as projectExists takes it)
IsExistingDir(p) ==
    LET q == IF p.abs THEN filepath_Clean(p)
             ELSE filepath_Clean(Path(TRUE, baseDir.segs \o p.segs))
    IN  q.segs \in Dirs

\* C13: Cleanup() leaves exactly the entries that are existing directories,
\* in their order, and starts a write of the backing file only when it
\* removed an entry.
C13_Cleanup ==
    /\ (Returned /\ op.name = "Cleanup") =>
          m.items = SelectSeq(op.pre, IsExistingDir)
    /\ (op.name = "Cleanup" /\ (pc # "idle" \/ file # op.preFile)) =>
          Len(m.items) < Len(op.pre)

\* A Cleanup removed a stale entry, kept another and wrote the file.
C13_Witness ==
    /\ Returned
    /\ op.name = "Cleanup"
    /\ op.err = "nil"
    /\ file # op.preFile
    /\ m.items # <<>>
    /\ Len(m.items) < Len(op.pre)

\* the lines of a backing file that are neither blank nor over-long
PathLines(f) == SelectSeq(f.lines, LAMBDA l : l # EmptyString /\ l # LongLine)

\* a readable backing file that lists a stale path next to a valid one
StaleNextToValid(f) ==
    /\ f.exists
    /\ f.readable
    /\ LongLine \notin Range(f.lines)
    /\ \E i \in 1..Len(PathLines(f)) : ~IsExistingDir(PathLines(f)[i])
    /\ \E i \in 1..Len(PathLines(f)) : IsExistingDir(PathLines(f)[i])

\* C14: after Cleanup() returns on a store whose backing file lists a stale
\* path next to valid ones, the backing file lists only valid paths and a
\* fresh store shows only valid entries.
C14_CleanupPersists ==
    (/\ Returned
     /\ op.name = "Cleanup"
     /\ op.err = "nil"
     /\ StaleNextToValid(op.preFile))
    => /\ \A i \in 1..Len(PathLines(file)) : IsExistingDir(PathLines(file)[i])
       /\ \A i \in 1..Len(ensureInitialized(NewMRUList, file).items) :
             IsExistingDir(ensureInitialized(NewMRUList, file).items[i])

\* C15: a Flush() called with the dirty flag set writes the current list
\* and, when the write succeeds, clears the flag; called with the flag not
\* set it writes nothing and changes no state.
C15_Flush ==
    (Returned /\ op.name = "Flush") =>
        IF op.preM.dirty
        THEN op.err = "nil" =>
                /\ file.exists
                /\ file # op.preFile
                /\ file.lines = m.items
                /\ ~m.dirty
        ELSE /\ m = op.preM
             /\ file = op.preFile
             /\ op.err = "nil"

\* C16: Update(p) with p already the first entry writes no file and leaves
\* the list, the index and the dirty flag as they were.
C16_FrontNoOp ==
    (/\ op.name = "Update"
     /\ op.pre # <<>>
     /\ op.pre[1] = normalizeProject(op.arg))
    => /\ pc = "idle"
       /\ op.err = "nil"
       /\ m = op.preM
       /\ file = op.preFile
       /\ tmp = NoFile

\* An Update of the first entry of a dirty list of several entries returned.
C16_Witness ==
    /\ UpdateReturned
    /\ Len(op.pre) >= 2
    /\ op.pre[1] = normalizeProject(op.arg)
    /\ op.preM.dirty

\* C17: Remove(p) of a p that is not in the list returns no error and
\* changes neither the list, the index, the dirty flag nor the backing file.
C17_RemoveAbsent ==
    (/\ op.name = "Remove"
     /\ normalizeProject(op.arg) \notin Range(op.pre))
    => /\ pc = "idle"
       /\ op.err = "nil"
       /\ m = op.preM
       /\ file = op.preFile
       /\ tmp = NoFile

\* A Remove of an absent project on a non-empty dirty list returned.
C17_Witness ==
    /\ Returned
    /\ op.name = "Remove"
    /\ normalizeProject(op.arg) \notin Range(op.pre)
    /\ op.pre # <<>>
    /\ op.preM.dirty

\* the backing file is missing or cannot be read
Unavailable(f) == ~f.exists \/ ~f.readable

\* C18: on a missing or unreadable backing file the first read returns
\* without error, Items() is empty and Size() is 0, and an Update that
\* follows puts its project into the list.
C18_OpenNeverFails ==
    /\ (/\ Returned
        /\ op.name \in {"Items", "Size"}
        /\ op.after[1] = "NewMRUList"
        /\ Unavailable(op.preFile))
       => /\ op.err = "nil"
          /\ m.initialized
          /\ ItemsResult(m, file) = <<>>
          /\ SizeResult(m, file) = 0
    /\ (/\ UpdateReturned
        /\ calls = 2
        /\ op.after[1] \in {"Items", "Size"}
        /\ Unavailable(op.preFile))
       => /\ m.items = <<normalizeProject(op.arg)>>
          /\ ContainsResult(m, file, op.arg)

\* An Update has returned after the first read of an unreadable file.
C18_Witness ==
    /\ UpdateReturned
    /\ calls = 2
    /\ op.after[1] \in {"Items", "Size"}
    /\ op.preFile.exists
    /\ ~op.preFile.readable
    /\ m.items = <<normalizeProject(op.arg)>>

\* C19: the Items() call that follows a rewrite of the backing file by
\* another writer returns the new file content.
C19_ReloadsNewerFile ==
    (/\ Returned
     /\ op.name = "Items"
     /\ op.after[1] = "ExternalWrite"
     /\ file.mod > op.preM.lastMod)
    => RelativeItems(m.items) = FreshItems(file)

\* the display paths of the entries that lie inside baseDir, in list order
RECURSIVE DisplayInside(_)
DisplayInside(items) ==
    IF items = <<>> THEN <<>>
    ELSE LET c == filepath_Clean(Head(items))
         IN  IF InsideBase(c)
             THEN <<Display(c)>> \o DisplayInside(Tail(items))
             ELSE DisplayInside(Tail(items))

\* C20: Items() returns, in list order, the display path of every entry
\* inside baseDir and omits exactly the entries outside baseDir.
C20_ItemsInsideBase ==
    (Returned /\ op.name = "Items") =>
        RelativeItems(m.items) = DisplayInside(m.items)

\* C21: Contains(id) returns true exactly when the canonical path of id is
\* an entry of the list, also as the first call on a new store; it is true
\* right after Update(id) and false right after Remove(id), and the call
\* changes neither the list nor the files.
C21_Contains ==
    /\ (Returned /\ op.name = "Contains") =>
          /\ ContainsResult(m, file, op.arg)
                <=> (normalizeProject(op.arg) \in Range(m.items))
          /\ m = op.preM
          /\ file = op.preFile
          /\ tmp = NoFile
          /\ op.err = "nil"
    /\ UpdateReturned => ContainsResult(m, file, op.arg)
    /\ (Returned /\ op.name = "Remove") => ~ContainsResult(m, file, op.arg)

\* Contains was the first call on a new store and found the project in
\* the list it loaded from the backing file.
C21_Witness ==
    /\ Returned
    /\ op.name = "Contains"
    /\ op.after[1] = "NewMRUList"
    /\ op.preFile.exists
    /\ ContainsResult(m, file, op.arg)
    /\ Len(m.items) >= 2

\* the call that has returned was the first call on a new store, opened
\* on a backing file that exists and can be read
FirstLoad ==
    /\ Returned
    /\ op.name \in ReadCalls
    /\ op.after[1] = "NewMRUList"
    /\ op.preFile.exists
    /\ op.preFile.readable

\* the trimmed lines of a file
Trimmed(lines) == [i \in 1..Len(lines) |-> TrimSpace(lines[i])]

\* line i is blank, or repeats an earlier line
Blank(lines, i) == Trimmed(lines)[i] = EmptyString
Repeated(lines, i) == \E j \in 1..(i - 1) : Trimmed(lines)[j] = Trimmed(lines)[i]

\* the reference result of a load: the non-blank trimmed lines that repeat
\* no earlier line and name an existing directory, in file order, cut to
\* the first maxMRUItems
ReferenceLoad(lines) ==
    LET keep(i) == /\ ~Blank(lines, i)
                   /\ ~Repeated(lines, i)
                   /\ IsExistingDir(Trimmed(lines)[i])
        idx == SelectSeq([i \in 1..Len(lines) |-> i], keep)
        n   == IF Len(idx) > maxMRUItems THEN maxMRUItems ELSE Len(idx)
    IN  [k \in 1..n |-> Trimmed(lines)[idx[k]]]

\* C26: the list produced by a load equals the reference result.
C26_LoadMatchesReference ==
    FirstLoad => m.items = ReferenceLoad(op.preFile.lines)

\* The load of a file without over-long lines equals the reference result.
C26_ShortLinesMatchReference ==
    (FirstLoad /\ LongLine \notin Range(op.preFile.lines)) =>
        m.items = ReferenceLoad(op.preFile.lines)

\* the load of these lines drops a line as a duplicate or as stale
DropsLine(lines) ==
    \E i \in 1..Len(lines) :
        /\ ~Blank(lines, i)
        /\ Repeated(lines, i) \/ ~IsExistingDir(Trimmed(lines)[i])

\* C27: after a load that dropped a line as a duplicate or as stale the
\* dirty flag is set; after a load that dropped no line it is not set.
C27_DirtyAfterLoad ==
    (FirstLoad /\ LongLine \notin Range(op.preFile.lines)) =>
        (m.dirty <=> DropsLine(op.preFile.lines))

\* C28: after every public operation returns, the index maps each list
\* entry to its position in the list and has no other key.
C28_IndexMatchesList ==
    Returned =>
        /\ DOMAIN m.itemSet = Range(m.items)
        /\ \A i \in 1..Len(m.items) : m.itemSet[m.items[i]] = i

\* A Remove took an entry out of the middle of the list, so that the
\* positions of the entries behind it changed.
C28_Witness ==
    /\ Returned
    /\ op.name = "Remove"
    /\ Len(op.pre) >= 3
    /\ normalizeProject(op.arg) \in Range(Tail(op.pre))
    /\ op.pre[Len(op.pre)] # normalizeProject(op.arg)
    /\ Len(m.items) = Len(op.pre) - 1

\* the goroutine's next step writes a field of the store
GoWrites(t) ==
    \/ th[t].pc \in {"reset", "stamp", "setinit"}
    \/ At(t, "stat") /\ ~file.exists
    \/ At(t, "open") /\ file.readable
    \/ At(t, "scan") /\ ~ScanLines(file.lines, <<>>, {}).err
    \/ At(t, "body") /\ ~TakesRLock(th[t].call)

\* the goroutine's next step reads or writes a field of the store
GoAccesses(t) ==
    th[t].pc \in {"ensure", "stat", "open", "scan", "reset", "stamp",
                  "setinit", "body"}

\* no call has changed the list, so that a read has to report the list
\* the backing file gives
OnlyReads ==
    \A t \in Goroutines : th[t].call = NoCall \/ TakesRLock(th[t].call)

\* C22: no goroutine writes a field of the store while another goroutine
\* reads or writes one, and an Items() call never reports a cleared list
\* that another caller's lazy load has produced.
C22_NoConflictingAccess ==
    /\ \A t, u \in Goroutines :
          (t # u /\ GoWrites(t)) => ~GoAccesses(u)
    /\ \A t \in Goroutines :
          (OnlyReads /\ At(t, "unlock") /\ th[t].call.name = "Items")
             => th[t].result = FreshItems(file)

\* the editor window of the selected project was launched or focused
WindowUp ==
    /\ launch.selectedProject # EmptyString
    /\ launch.windowDone
    /\ launch.windowErr = "nil"
    /\ launch.started \/ launch.focused

FirstOccurrences(s) ==
    LET idx == SelectSeq([i \in 1..Len(s) |-> i],
                         LAMBDA i : \A j \in 1..(i - 1) : s[j] # s[i])
    IN  [k \in 1..Len(idx) |-> s[idx[k]]]

\* the candidate list was handed to the picker
Picking == launch.pc \in {"select", "launch", "update", "close", "done"}
             /\ launch.merged /\ launch.uniqueProjects # <<>>

\* C24: in the candidate list every MRU item comes before every discovered
\* project that is not an MRU item, the MRU items keep their order, and no
\* project appears twice.
C24_MRUFirst ==
    Picking =>
        LET u   == launch.uniqueProjects
            mru == Range(launch.mruProjects)
        IN  /\ \A i, j \in 1..Len(u) :
                  (u[i] \in mru /\ u[j] \notin mru) => i < j
            /\ SelectSeq(u, LAMBDA x : x \in mru)
                  = FirstOccurrences(launch.mruProjects)
            /\ NoDuplicates(u)
            /\ Range(u) = mru \cup Range(launch.allProjects)

\* The picker got MRU items followed by a discovered project, and the
\* discovery had found an MRU item again.
C24_Witness ==
    /\ launch.pc = "select"
    /\ Len(launch.mruProjects) >= 2
    /\ Len(launch.allProjects) = 2
    /\ launch.allProjects[1] \notin Range(launch.mruProjects)
    /\ launch.allProjects[2] \in Range(launch.mruProjects)

\* C25: RemoveDuplicates returns the distinct elements of its input, each
\* once, in the order of their first occurrence, and applied to its own
\* result it changes nothing.
C25_RemoveDuplicates ==
    launch.merged =>
        LET input  == launch.mruProjects \o launch.allProjects
            output == launch.uniqueProjects
        IN  /\ output = FirstOccurrences(input)
            /\ Range(output) = Range(input)
            /\ NoDuplicates(output)
            /\ RemoveDuplicates(output) = output

\* RemoveDuplicates was applied to an input that repeats an element after
\* a different one.
C25_Witness ==
    /\ launch.merged
    /\ LET input == launch.mruProjects \o launch.allProjects
       IN  /\ Len(input) >= 3
           /\ Len(launch.uniqueProjects) >= 2
           /\ Len(launch.uniqueProjects) < Len(input)
           /\ input[Len(input)] \in Range(Front(input))
           /\ input[Len(input)] # input[Len(input) - 1]

\* the lists the processes have handed to saveAtomic
SavedLists == UNION {proc[p].lists : p \in Procs}

\* C29: when two processes save to the same backing file concurrently, the
\* backing file holds the complete list written by one of them (or what it
\* held before the saves), never a mixture of the two lists or a truncated
\* part of one.
C29_LastWriterWins ==
    (proc # <<>> /\ names.file # 0) =>
        inodes[names.file] \in (ProcInitial \cup SavedLists)

\* Both saves are over and the backing file holds one of the two different
\* lists complete.
C29_BothSaved ==
    /\ proc # <<>>
    /\ \A p \in Procs : PAt(p, "idle") /\ proc[p].saves = 1 /\ proc[p].err = "nil"
    /\ proc["p1"].items # proc["p2"].items
    /\ names.file # 0
    /\ inodes[names.file] \in SavedLists

\* C30: every call on a store eventually returns; no operation blocks
\* forever on the store's own lock.
C30_EveryCallReturns ==
    \A t \in Goroutines : (th[t].pc # "idle") ~> (th[t].pc = "idle")

\* a goroutine is inside save, waiting for the lock it holds itself
SelfLocked == \E t \in Goroutines : At(t, "save") /\ mu.writer = t

\* the lock is never asked for by the goroutine that holds it
C30_NoSelfLock == ~SelfLocked

\* the list the launch flow's store held before the run
ListBefore ==
    IF launch.variant = "root.go" THEN loadMRU(launch.preFile)
    ELSE ensureInitialized(NewMRUList, launch.preFile).items

\* the list the launch flow's store holds
ListNow == IF launch.variant = "root.go" THEN launch.core ELSE m.items

\* C31: the launch flow calls Update(selection) only after the editor
\* window was launched or focused successfully; when the launch or focus
\* fails, the MRU list and its backing file are left unchanged.
C31_UpdateAfterWindow ==
    launch.pc # "off" =>
        /\ launch.mruDone => (launch.windowDone /\ launch.windowErr = "nil")
        /\ (launch.pc = "done" /\ launch.windowDone /\ launch.windowErr # "nil") =>
              /\ ListNow = ListBefore
              /\ file = launch.preFile

\* the same for the run of cmd/root.go alone, as far as the call of Update
\* goes
C31_RootUpdatesAfterWindow ==
    (launch.pc # "off" /\ launch.variant = "root.go") =>
        (launch.mruDone => (launch.windowDone /\ launch.windowErr = "nil"))

\* C32: when a window for the selected project exists and the window
\* lookup finds it, the launch flow focuses that window (unless focusing
\* itself fails) and starts no new editor process, also when the 2-second
\* context has expired before the lookup.
C32_ReusesWindow ==
    (launch.pc # "off" /\ launch.windowDone /\ launch.windowExists
       /\ launch.find = "found" /\ ~launch.focusFailed) =>
        (launch.focused /\ ~launch.started)

\* the same while the context has not expired
C32_ReusesWindowInTime ==
    (launch.pc # "off" /\ launch.windowDone /\ launch.windowExists
       /\ launch.find = "found" /\ ~launch.focusFailed /\ ~launch.expired) =>
        (launch.focused /\ ~launch.started)

\* C33: when the time budget expires while the project discovery or the
\* MRU read has not delivered yet, the launch flow goes on with what is
\* available and does not return an error for it.
C33_TimeoutProceeds ==
    (launch.pc = "done" /\ launch.variant = "launch.go" /\ launch.expired
       /\ launch.received # {"projects", "mru"}) =>
        launch.ret # "error"

\* the lines of a file that can be read, are not blank and name an existing
\* directory
ValidLines(lines) ==
    {Trimmed(lines)[i] :
        i \in {j \in 1..Len(lines) :
                  /\ lines[j] # LongLine
                  /\ ~Blank(lines, j)
                  /\ IsExistingDir(Trimmed(lines)[j])}}

\* C34: a load discards no valid entry because of another line of the
\* file: every readable line that names an existing directory is in the
\* list after the load, up to capacity, whatever blank or unreadable lines
\* the file holds besides.
C34_KeepsValidLines ==
    FirstLoad =>
        LET valid == ValidLines(op.preFile.lines)
        IN  IF Cardinality(valid) <= maxMRUItems
            THEN valid \subseteq Range(m.items)
            ELSE Len(m.items) = maxMRUItems

\* the same for files whose lines can all be read
C34_ShortLinesKept ==
    (FirstLoad /\ LongLine \notin Range(op.preFile.lines)) =>
        LET valid == ValidLines(op.preFile.lines)
        IN  IF Cardinality(valid) <= maxMRUItems
            THEN valid \subseteq Range(m.items)
            ELSE Len(m.items) = maxMRUItems

\* no other process has written the backing file since the store last read
\* or wrote it
Synced == file.exists => file.mod <= m.lastMod

\* the list a fresh load of the backing file produces
FreshList == ensureInitialized(NewMRUList, file).items

\* C36: whenever a store is initialized and its dirty flag is false, and
\* no other process has changed the backing file since, loading the
\* backing file afresh produces exactly the store's in-memory list.
C36_CleanMatchesFile ==
    (Returned /\ m.initialized /\ ~m.dirty /\ Synced) => FreshList = m.items

\* the same for lists whose entries all are existing directories and have
\* no white space at their ends
C36_CleanMatchesFileTrimmed ==
    (/\ Returned /\ m.initialized /\ ~m.dirty /\ Synced
     /\ AllExist(m.items)
     /\ \A i \in 1..Len(m.items) : TrimSpace(m.items[i]) = m.items[i])
    => FreshList = m.items

\* each goroutine has made one call, g1 and g2 have called Update(a) and
\* Update(b) (one each), and both calls have returned without an error
BothUpdated ==
    /\ th # <<>>
    /\ \A t \in Goroutines :
          /\ At(t, "idle")
          /\ th[t].done = 1
          /\ th[t].call.name = "Update"
          /\ th[t].result = "nil"
    /\ {normalizeProject(th[t].call.arg) : t \in Goroutines} = {DirA, DirB}

\* the number of entries of s equal to x
Count(s, x) == Cardinality({i \in 1..Len(s) : s[i] = x})

\* C37: after two goroutines have called Update(a) and Update(b)
\* concurrently on one store, with a different from b and all writes
\* succeeding, the list holds a and b once each at its first two positions
\* and the backing file lists the entries of the list in the same order.
C37_ConcurrentUpdates ==
    BothUpdated =>
        /\ Len(m.items) >= 2
        /\ {m.items[1], m.items[2]} = {DirA, DirB}
        /\ Count(m.items, DirA) = 1
        /\ Count(m.items, DirB) = 1
        /\ file.exists
        /\ file.lines = m.items

\* Both updates have returned on a store that had no backing file; the
\* later one was Update(b).
C37_Witness ==
    /\ BothUpdated
    /\ m.items = <<DirB, DirA>>
    /\ file.exists
    /\ file.lines = <<DirB, DirA>>
    /\ file.mod = 3

\* Close has returned
Closed == pc = "closed"

\* a timer is armed, or its callback has been started and has not finished
Pending(i) == m.timers[i] \in {"armed", "fired"}

\* C35: in the timer-based store, once Close() has returned no background
\* save is scheduled or running any more and, when the save of Close
\* succeeded, the backing file holds the final list; a callback that races
\* with Close leaves no new timer armed.
C35_CloseStopsSaves ==
    Closed =>
        /\ \A i \in 1..Len(m.timers) : ~Pending(i)
        /\ op.err = "nil" => (file.exists /\ file.lines = m.items)

\* the part of C35 about the backing file
C35_CloseWritesList ==
    (Closed /\ op.err = "nil") => (file.exists /\ file.lines = m.items)

\* without a timer that fired before Close stopped it, and without an
\* Update made while a callback was waiting, Close leaves nothing pending
C35_QuietClose ==
    (Closed /\ \A i \in 1..Len(m.timers) : m.timers[i] # "done" /\ m.timers[i] # "fired")
        => \A i \in 1..Len(m.timers) : ~Pending(i)

\* C38: every call of LuaRunner.Select returns, with a selection or an
\* error; it never blocks for ever on the runner's own lock, also when the
\* config file was modified after the runner was created.
C38_SelectReturns ==
    \A t \in Goroutines :
        (th[t].pc # "idle" /\ th[t].call.name = "Select")
            ~> (th[t].pc = "idle")

\* a goroutine waits in loadConfig for the write lock while it holds the
\* read lock itself
ReaderWantsLock == \E t \in Goroutines : At(t, "Lock") /\ t \in mu.readers

\* no goroutine asks for the write lock while holding the read lock
C38_NoUpgrade == ~ReaderWantsLock

\* while the config file is not newer than the loaded configuration no
\* goroutine asks for the write lock while holding the read lock
C38_NoUpgradeUnmodified ==
    (file.exists => file.mod <= m.lastMod) => ~ReaderWantsLock

============================================================================
